---- MODULE Spec2Model ----
(***************************************************************************)
(* A model of dipy/reconst/dki.py (diffusion kurtosis imaging): the        *)
(* kurtosis tensor algebra (Wcons, _Wrotate_element, Wrotate), the         *)
(* kurtosis metrics (mean_kurtosis, axial_kurtosis, radial_kurtosis and    *)
(* the DKIFit accessors), the coefficient functions A1111, A2233, C2222,   *)
(* C2233, the least-squares fits ols_fit_dki / wls_fit_dki, the design     *)
(* matrix, the Carlson integrals and DKIModel; and of the flag checking of *)
(* setup_helpers.py (Checker.build_extensions).                            *)
(*                                                                         *)
(* Arrays keep the source's 0-based indices: a vector of length n is a     *)
(* function over 0..n-1.  Real numbers are modelled by integers drawn from  *)
(* small sets, or by exact quotients where the code divides.               *)
(***************************************************************************)
EXTENDS Integers, Sequences, FiniteSets, TLC

VARIABLES
    \* ---- kurtosis tensor algebra
    tpc,        \* position: "init", "Wcons", "element", "Wrotate"
    kt,         \* the 15 independent kurtosis elements (argument kt / k_elements)
    Basis,      \* the 3x3 basis (argument Basis)
    W4D,        \* the dense tensor built by Wcons
    tcall,      \* the arguments of the last call (index quadruple or inds)
    rot,        \* the value the last call produced
    \* ---- kurtosis metrics
    mpc,          \* position: "init" or the name of the function called
    model_params, \* the 27 fitted parameters of one voxel (DKIFit.model_params)
    margs,        \* the Wrotat argument of a direct call
    metric,       \* the outcome of the call
    \* ---- coefficient functions
    cpc,        \* position: "init" or the name of the function called
    ca, cb, cc, \* the three argument arrays
    cres,       \* the outcome: per element the value and the denominators
    \* ---- least-squares fits
    fpc,             \* position: "start", "loop", "done", "raised"
    fit_method,      \* "ols" (ols_fit_dki) or "wls" (wls_fit_dki)
    design_matrix,   \* argument design_matrix: g rows of 22 covariates
    data_flat,       \* the data, one row of g samples per voxel
    min_signal,      \* argument min_signal
    min_diffusivity, \* local of the fit, set before the loop
    inv_design,      \* local of the fit, set before the loop
    vox,             \* the loop variable: the next voxel to fit
    dki_params,      \* the rows of the output written so far
    locals,          \* the locals of the last _ols_iter / _wls_iter call
    \* ---- design matrix
    dpc,        \* position: "init", "built"
    bvals,      \* gtab.bvals, one b-value per measurement
    bvecs,      \* gtab.bvecs, one direction per measurement
    B_design,   \* the matrix B that dki_design_matrix returns
    \* ---- Carlson integrals rfpython / rdpython
    epc,        \* position: "init", "loop", "done"
    efun,       \* "rf" (rfpython) or "rd" (rdpython)
    eband,      \* the band of doubles the arguments lie in
    ex, ey, ez, \* arguments x, y, z (arrays of one element)
    xn, yn, zn, \* locals xn, yn, zn
    mu,         \* local mu
    devs,       \* locals xndev, yndev, zndev
    iters,      \* the number of turns of the while loop so far
    lamda,      \* local lamda of the last turn
    sigma,      \* local sigma of rdpython
    power4,     \* local power4 of rdpython
    eres,       \* the outcome of the call
    \* ---- DKIModel
    kpc,             \* position: "new", "built", "fitted", "raised"
    gtab,            \* argument gtab of __init__
    init_fit_method, \* argument fit_method of __init__
    init_args,       \* argument *args of __init__
    init_kwargs,     \* argument **kwargs of __init__
    self,            \* the attributes the model object has
    fit_data,        \* argument data of fit
    fit_mask,        \* argument mask of fit
    invoked,         \* the call of the fit method that fit made
    exc,             \* the exception raised, "none" when there is none
    fit_out,         \* the DKIFit that fit returned
    \* ---- setup_helpers.py: Checker.build_extensions
    bpc,                \* position: "loop", "done"
    flag_defs,          \* Checker.flag_defs, the entries to check
    compiler,           \* self.compiler: what compiling and linking a code does
    extensions,         \* self.extensions
    checked,            \* the number of entries the loop has handled
    def_vars,           \* local def_vars
    good_compile_flags, \* local good_compile_flags
    good_link_flags,    \* local good_link_flags
    config_pxi,         \* the lines of build/config.pxi, <<>> while not written
    parent_built        \* the extensions the parent's build_extensions was given

tvars == <<tpc, kt, Basis, W4D, tcall, rot>>

mvars == <<mpc, model_params, margs, metric>>

cvars == <<cpc, ca, cb, cc, cres>>

fvars == <<fpc, fit_method, design_matrix, data_flat, min_signal,
           min_diffusivity, inv_design, vox, dki_params, locals>>

dvars == <<dpc, bvals, bvecs, B_design>>

evars == <<epc, efun, eband, ex, ey, ez, xn, yn, zn, mu, devs, iters, lamda,
           sigma, power4, eres>>

kvars == <<kpc, gtab, init_fit_method, init_args, init_kwargs, self, fit_data,
           fit_mask, invoked, exc, fit_out>>

bvars == <<bpc, flag_defs, compiler, extensions, checked, def_vars,
           good_compile_flags, good_link_flags, config_pxi, parent_built>>

vars == <<tvars, mvars, cvars, fvars, dvars, evars, kvars, bvars>>

(***************************************************************************)
(* Bounds                                                                  *)
(***************************************************************************)
MaxW == 1       \* largest value of a single kurtosis element in the inputs
MaxEval == 2    \* largest eigenvalue in the inputs

(***************************************************************************)
(* Small helpers                                                           *)
(***************************************************************************)
XYZ == 0..2

None == [type |-> "NoneType", val |-> <<>>]

Sum3(F(_)) == F(0) + F(1) + F(2)

Quads == {<<i, j, k, l>> : i \in XYZ, j \in XYZ, k \in XYZ, l \in XYZ}

Vec3(x, y, z) == (0 :> x) @@ (1 :> y) @@ (2 :> z)

(***************************************************************************)
(* Wcons (dki.py 537-592)                                                  *)
(***************************************************************************)
\* the lookup table of lines 566-580: every key is bound to k_elements[0]
indep_ele(k_elements) ==
    (1 :> k_elements[0]) @@ (16 :> k_elements[0]) @@ (81 :> k_elements[0]) @@
    (2 :> k_elements[0]) @@ (3 :> k_elements[0]) @@ (8 :> k_elements[0]) @@
    (24 :> k_elements[0]) @@ (27 :> k_elements[0]) @@ (54 :> k_elements[0]) @@
    (4 :> k_elements[0]) @@ (9 :> k_elements[0]) @@ (36 :> k_elements[0]) @@
    (6 :> k_elements[0]) @@ (12 :> k_elements[0]) @@ (18 :> k_elements[0])

\* a key that leaves the last index out and counts the third twice
KeyWithoutLast(q) == (q[1] + 1) * (q[2] + 1) * (q[3] + 1) * (q[3] + 1)

\* the key of line 589
WconsKey(q) == (q[1] + 1) * (q[2] + 1) * (q[3] + 1) * (q[4] + 1)

\* a tensor filled by the first index alone
Wcons_by_first_index(k_elements) == [q \in Quads |-> k_elements[q[1]]]

\* lines 582-592: W[ind_i][ind_j][ind_k][ind_l] = indep_ele[key] for all 81
Wcons(k_elements) ==
    [q \in Quads |-> indep_ele(k_elements)[WconsKey(q)]]

(***************************************************************************)
(* _Wrotate_element (dki.py 489-534)                                       *)
(*                                                                         *)
(* Line 531 is a complete statement:                                       *)
(*    Wre = Wre + Basis[ind_i][il]*Basis[ind_j][jl]*Basis[ind_k]           *)
(* so each iteration adds a multiple of the ROW Basis[ind_k] to Wre; line  *)
(* 532 is a separate expression statement whose value is discarded.  The   *)
(* value returned is therefore an array of 3 numbers.                      *)
(***************************************************************************)
Wrotate_element(W, ind_i, ind_j, ind_k, ind_l, B) ==
    [kind |-> "array",
     val  |-> [n \in XYZ |->
                Sum3(LAMBDA il : Sum3(LAMBDA jl : Sum3(LAMBDA kl : Sum3(LAMBDA ll :
                    B[ind_i][il] * B[ind_j][jl] * B[ind_k][n]))))]]

(***************************************************************************)
(* Wrotate (dki.py 428-486)                                                *)
(***************************************************************************)
\* lines 471-475: the default index set
default_inds ==
    <<  <<0, 0, 0, 0>>, <<1, 1, 1, 1>>, <<2, 2, 2, 2>>,
        <<0, 0, 0, 1>>, <<0, 0, 0, 2>>, <<0, 1, 1, 1>>,
        <<1, 1, 1, 2>>, <<0, 2, 2, 2>>, <<1, 2, 2, 2>>,
        <<0, 0, 1, 1>>, <<0, 0, 2, 2>>, <<1, 1, 2, 2>>,
        <<0, 0, 1, 2>>, <<0, 1, 1, 2>>, <<0, 1, 2, 2>> >>

\* len(x) of line 477 needs a sized object
has_len(x) == x.type \in {"list", "ndarray"}

\* range(x) of line 482 accepts an integer only; an array or a list is not one
range_accepts(x) == x.type = "int"

\* The outcome of Wrotate: "line" is the line that raised
Wrotate(k, B, inds) ==
    LET inds1 == IF inds = None
                    THEN [type |-> "ndarray", val |-> default_inds]
                    ELSE inds
        W     == Wcons(k)
    IN  IF ~has_len(inds1)
          THEN [status |-> "TypeError", line |-> 477, val |-> <<>>]
        ELSE IF ~range_accepts(inds1)
          THEN [status |-> "TypeError", line |-> 482, val |-> <<>>]
        ELSE [status |-> "ok", line |-> 486,
              val |-> [e \in 0..(inds1.val - 1) |->
                         Wrotate_element(W, inds1.val[e + 1][1],
                                         inds1.val[e + 1][2], inds1.val[e + 1][3],
                                         inds1.val[e + 1][4], B)]]

(***************************************************************************)
(* Inputs                                                                  *)
(***************************************************************************)
KtInputs ==
    {[n \in 0..14 |-> n + 1]} \cup
    {[n \in 0..14 |-> IF n = p THEN v ELSE 0] : p \in 0..14, v \in 1..MaxW}

RowInputs == {Vec3(1, 0, 0), Vec3(0, 1, 0), Vec3(0, 0, 1), Vec3(1, 1, 0)}

BasisInputs == {Vec3(r0, r1, r2) : r0 \in RowInputs, r1 \in RowInputs, r2 \in RowInputs}

Identity == Vec3(Vec3(1, 0, 0), Vec3(0, 1, 0), Vec3(0, 0, 1))

IndsInputs ==
    {None,
     [type |-> "list", val |-> <<0, 0, 0, 0>>],
     [type |-> "list", val |-> <<1, 1, 2, 2>>],
     [type |-> "ndarray", val |-> << <<0, 0, 1, 1>>, <<0, 1, 2, 2>> >>]}

(***************************************************************************)
(* The tensor algebra as a state machine                                   *)
(***************************************************************************)
TInit ==
    /\ tpc = "init"
    /\ kt \in KtInputs
    /\ Basis \in BasisInputs
    /\ W4D = <<>>
    /\ tcall = <<>>
    /\ rot = <<>>

DoWcons ==
    /\ tpc = "init"
    /\ W4D' = Wcons(kt)
    /\ tpc' = "Wcons"
    /\ UNCHANGED <<kt, Basis, tcall, rot>>
    /\ UNCHANGED <<mvars, cvars, fvars, dvars, evars, kvars, bvars>>

DoWrotateElement ==
    /\ tpc = "Wcons"
    /\ \E q \in Quads :
        /\ tcall' = q
        /\ rot' = Wrotate_element(W4D, q[1], q[2], q[3], q[4], Basis)
    /\ tpc' = "element"
    /\ UNCHANGED <<kt, Basis, W4D>>
    /\ UNCHANGED <<mvars, cvars, fvars, dvars, evars, kvars, bvars>>

DoWrotate ==
    /\ tpc = "init"
    /\ \E inds \in IndsInputs :
        /\ tcall' = inds
        /\ rot' = Wrotate(kt, Basis, inds)
    /\ tpc' = "Wrotate"
    /\ UNCHANGED <<kt, Basis, W4D>>
    /\ UNCHANGED <<mvars, cvars, fvars, dvars, evars, kvars, bvars>>

TNext == DoWcons \/ DoWrotateElement \/ DoWrotate

(***************************************************************************)
(* Values of the coefficient functions                                     *)
(*                                                                         *)
(* A1111, A2233, C2222 and C2233 return real numbers built from square     *)
(* roots and Carlson integrals.  A metric that multiplies them by tensor   *)
(* elements and adds the products is kept as a linear form: a function     *)
(* from the symbol <<name, a, b, c>> (the number name(a, b, c) returns) to *)
(* its integer weight, symbols of weight 0 left out.  Two linear forms are *)
(* equal iff the sums agree whatever the coefficient values are.           *)
(***************************************************************************)
LZero == [x \in {} |-> 0]

LTerm(sym, w) == IF w = 0 THEN LZero ELSE (sym :> w)

LAdd(f, g) ==
    LET D == DOMAIN f \cup DOMAIN g
        h == [x \in D |-> (IF x \in DOMAIN f THEN f[x] ELSE 0)
                        + (IF x \in DOMAIN g THEN g[x] ELSE 0)]
    IN  [x \in {y \in D : h[y] # 0} |-> h[x]]

LScale(w, f) == IF w = 0 THEN LZero ELSE [x \in DOMAIN f |-> w * f[x]]

\* dki.py 264-269
F1m(a, b, c) == LTerm(<<"A1111", a, b, c>>, 1)

\* dki.py 272-276
F2m(a, b, c) == LTerm(<<"A2233", a, b, c>>, 6)

\* dki.py 279-283
G1m(a, b, c) == LTerm(<<"C2222", a, b, c>>, 1)

\* dki.py 286-290
G2m(a, b, c) == LTerm(<<"C2233", a, b, c>>, 6)

(***************************************************************************)
(* Kurtosis metrics (dki.py 324-425, 606-685)                              *)
(***************************************************************************)
\* dki.py 595-603: the three values returned are placeholder strings
split_dki_param(params) == [evals |-> "WIP1", evecs |-> "WIP2", kt |-> "WIP3"]

\* np.zeros(shape, dtype): the second positional argument is the dtype
is_dtype(x) == x.type \in {"dtype", "type", "str"}

\* dki.py 417-423: line 418 is a complete assignment; lines 419-423 are
\* separate expression statements (unary plus) whose values are discarded
MeanKurt_assigned(ev, Wxxxx, Wyyyy, Wzzzz, Wxxyy, Wxxzz, Wyyzz) ==
    LScale(Wxxxx, F1m(ev[0], ev[1], ev[2]))

\* dki.py 324-425.  "line" is the line that raised.
mean_kurtosis(params) ==
    LET sp == split_dki_param(params)
    IN  IF ~is_dtype([type |-> "int", val |-> 15])
          THEN [status |-> "TypeError", line |-> 402, val |-> LZero]
        ELSE IF Wrotate(sp.kt, sp.evecs, [type |-> "list", val |-> <<0, 0, 0, 0>>]).status # "ok"
          THEN [status |-> "TypeError", line |-> 410, val |-> LZero]
        ELSE [status |-> "ok", line |-> 425,
              val |-> MeanKurt_assigned(sp.evals, 0, 0, 0, 0, 0, 0)]

\* dki.py 606-639: the value is the exact quotient n / d
axial_kurtosis(ev, Wrotat) ==
    LET W_xxxx == Wrotat[0]
    IN  [status |-> "ok", line |-> 639,
         val |-> [n |-> (ev[0] + ev[1] + ev[2]) * (ev[0] + ev[1] + ev[2]) * W_xxxx,
                  d |-> 9 * ev[0] * ev[0]]]

\* dki.py 642-685: line 682 binds W_zzzz to Wrotat[...,1]
radial_kurtosis(ev, Wrotat) ==
    LET W_xxxx == Wrotat[0]
        W_yyyy == Wrotat[1]
        W_zzzz == Wrotat[1]
        W_xxyy == Wrotat[3]
        W_xxzz == Wrotat[4]
        W_yyzz == Wrotat[5]
    IN  [status |-> "ok", line |-> 685,
         val |-> LAdd(LAdd(LScale(W_yyyy, G1m(ev[0], ev[1], ev[2])),
                           LScale(W_zzzz, G1m(ev[0], ev[2], ev[1]))),
                      LScale(W_yyzz, G2m(ev[0], ev[1], ev[2])))]

(***************************************************************************)
(* DKIFit (dki.py 844-992)                                                 *)
(***************************************************************************)
\* TensorFit.evals: the first three parameters
DKIFit_evals(params) == [n \in 0..2 |-> params[n]]

\* the 3x3 eigenvector matrix stored row by row in parameters 3..11
DKIFit_evecs(params) == [r \in XYZ |-> [c \in XYZ |-> params[3 + 3 * r + c]]]

\* dki.py 854-860: model_params[..., 12:]
DKIFit_Wrotat(params) == [n \in 0..14 |-> params[12 + n]]

\* a call with nargs positional arguments of a function of nparams parameters
call_accepts(nargs, nparams) == nargs = nparams

\* dki.py 862-921: mean_kurtosis(self.model_params, self.Wrotat), while
\* mean_kurtosis (line 324) has the single parameter dki_params
DKIFit_mk(params) ==
    IF ~call_accepts(2, 1)
      THEN [status |-> "TypeError", line |-> 921, val |-> LZero]
      ELSE mean_kurtosis(params)

\* dki.py 923-952
DKIFit_ak(params) ==
    axial_kurtosis(DKIFit_evals(params), DKIFit_Wrotat(params))

\* dki.py 954-992
DKIFit_rk(params) ==
    radial_kurtosis(DKIFit_evals(params), DKIFit_Wrotat(params))

(***************************************************************************)
(* Inputs of the metrics                                                   *)
(***************************************************************************)
\* eigenvalues as the fit stores them: positive, largest first
EvalInputs ==
    {Vec3(x, y, z) : x \in 1..MaxEval, y \in 1..MaxEval, z \in 1..MaxEval} \cap
    {ev \in [XYZ -> 1..MaxEval] : ev[0] >= ev[1] /\ ev[1] >= ev[2]}

\* orthonormal eigenvector matrices with integer entries: the permutations
EvecInputs ==
    {B \in BasisInputs :
        /\ \A r \in XYZ : B[r] # Vec3(1, 1, 0)
        /\ \A r1 \in XYZ, r2 \in XYZ : r1 # r2 => B[r1] # B[r2]}

params_of(ev, B, k) ==
    [n \in 0..26 |-> IF n < 3 THEN ev[n]
                     ELSE IF n < 12 THEN B[(n - 3) \div 3][(n - 3) % 3]
                     ELSE k[n - 12]]

W6Inputs ==
    {[n \in 0..5 |-> n + 1]} \cup
    {[n \in 0..5 |-> IF n = p THEN v ELSE 0] : p \in 0..5, v \in 1..MaxW}

(***************************************************************************)
(* _roll_Wrotat (dki.py 293-321)                                           *)
(*                                                                         *)
(* An array is its shape and its values by index tuple; shapes and index   *)
(* tuples are sequences, axis numbers count from 0 as in the source.       *)
(***************************************************************************)
Indices(shape) ==
    {idx \in [1..Len(shape) -> 0..5] : \A p \in 1..Len(shape) : idx[p] < shape[p]}

\* np.rollaxis(a, axis): the axis moved to the front, the others in order
rollaxis(a, axis) ==
    LET n  == Len(a.shape)
        ax == IF axis < 0 THEN axis + n ELSE axis
        newshape == [k \in 1..n |-> IF k = 1 THEN a.shape[ax + 1]
                                    ELSE IF k - 1 <= ax THEN a.shape[k - 1]
                                    ELSE a.shape[k]]
        orig(idx) == [q \in 1..n |-> IF q = ax + 1 THEN idx[1]
                                     ELSE IF q < ax + 1 THEN idx[q + 1]
                                     ELSE idx[q]]
    IN  [shape |-> newshape,
         at    |-> [idx \in Indices(newshape) |-> a.at[orig(idx)]]]

\* lines 314-321
roll_Wrotat(Wrotat, axis) ==
    IF Wrotat.shape[Len(Wrotat.shape)] # 3
      THEN [status |-> "ValueError", line |-> 316, val |-> <<>>]
      ELSE [status |-> "ok", line |-> 321, val |-> rollaxis(Wrotat, axis)]

\* arrays of one and two axes; the value at an index tuple names the tuple
ShapeInputs == {<<6>>, <<3>>, <<2>>, <<2, 6>>, <<2, 3>>, <<6, 3>>, <<3, 6>>, <<3, 3>>}

ArrayOf(shape) ==
    [shape |-> shape,
     at    |-> [idx \in Indices(shape) |->
                   IF Len(shape) = 1 THEN idx[1] + 1
                   ELSE 10 * (idx[1] + 1) + idx[2] + 1]]

(***************************************************************************)
(* The metrics as a state machine                                          *)
(***************************************************************************)
MInit ==
    /\ mpc = "init"
    /\ \E ev \in EvalInputs, B \in EvecInputs, k \in KtInputs :
          model_params = params_of(ev, B, k)
    /\ margs = <<>>
    /\ metric = <<>>

CallAxial ==
    /\ mpc = "init"
    /\ \E W \in W6Inputs :
        /\ margs' = W
        /\ metric' = axial_kurtosis(DKIFit_evals(model_params), W)
    /\ mpc' = "axial_kurtosis"
    /\ UNCHANGED model_params
    /\ UNCHANGED <<tvars, cvars, fvars, dvars, evars, kvars, bvars>>

CallRadial ==
    /\ mpc = "init"
    /\ \E W \in W6Inputs :
        /\ margs' = W
        /\ metric' = radial_kurtosis(DKIFit_evals(model_params), W)
    /\ mpc' = "radial_kurtosis"
    /\ UNCHANGED model_params
    /\ UNCHANGED <<tvars, cvars, fvars, dvars, evars, kvars, bvars>>

CallMeanKurtosis ==
    /\ mpc = "init"
    /\ metric' = mean_kurtosis(model_params)
    /\ mpc' = "mean_kurtosis"
    /\ UNCHANGED <<model_params, margs>>
    /\ UNCHANGED <<tvars, cvars, fvars, dvars, evars, kvars, bvars>>

GetMk ==
    /\ mpc = "init"
    /\ metric' = DKIFit_mk(model_params)
    /\ mpc' = "mk"
    /\ UNCHANGED <<model_params, margs>>
    /\ UNCHANGED <<tvars, cvars, fvars, dvars, evars, kvars, bvars>>

GetAk ==
    /\ mpc = "init"
    /\ metric' = DKIFit_ak(model_params)
    /\ mpc' = "ak"
    /\ UNCHANGED <<model_params, margs>>
    /\ UNCHANGED <<tvars, cvars, fvars, dvars, evars, kvars, bvars>>

GetRk ==
    /\ mpc = "init"
    /\ metric' = DKIFit_rk(model_params)
    /\ mpc' = "rk"
    /\ UNCHANGED <<model_params, margs>>
    /\ UNCHANGED <<tvars, cvars, fvars, dvars, evars, kvars, bvars>>

CallRollWrotat ==
    /\ mpc = "init"
    /\ \E shape \in ShapeInputs : \E axis \in (-Len(shape))..(Len(shape) - 1) :
        /\ margs' = [Wrotat |-> ArrayOf(shape), axis |-> axis]
        /\ metric' = roll_Wrotat(ArrayOf(shape), axis)
    /\ mpc' = "_roll_Wrotat"
    /\ UNCHANGED model_params
    /\ UNCHANGED <<tvars, cvars, fvars, dvars, evars, kvars, bvars>>

MNext ==
    \/ CallAxial \/ CallRadial \/ CallMeanKurtosis \/ GetMk \/ GetAk \/ GetRk
    \/ CallRollWrotat

(***************************************************************************)
(* The coefficient functions A1111, A2233, C2222, C2233 (dki.py 146-261)   *)
(*                                                                         *)
(* They work on arrays, element by element under boolean masks.  For each  *)
(* element the model keeps which branch produced the returned value        *)
(* ("val": branch f, integer factor k, the branch's arguments) and the set *)
(* of denominators evaluated for that element ("den").  A denominator is   *)
(* recorded as an integer that is zero exactly when the denominator is:    *)
(* sqrt(b*c) as b*c, sqrt(|1 - a/c|) as c - a.                             *)
(***************************************************************************)
Elems == {0, 1}

Pos(a, b, c, e) == a[e] > 0 /\ b[e] > 0 /\ c[e] > 0

\* a test of the first argument alone
FirstNonPos(a, b, c, e) == a[e] <= 0

NonPos(a, b, c, e) == a[e] <= 0 \/ b[e] <= 0 \/ c[e] <= 0

CVal(f, k, x, y, z) == [f |-> f, k |-> k, args |-> <<x, y, z>>]

CZero == [f |-> "0", k |-> 0, args |-> <<0, 0, 0>>]

\* dki.py 183-220
A2233(a, b, c) ==
    LET cond1(e) == Pos(a, b, c, e) /\ b[e] # c[e]
        cond2(e) == Pos(a, b, c, e) /\ (b[e] = c[e] /\ a[e] # b[e])
        cond3(e) == NonPos(a, b, c, e)
        v0(e) == CVal("1/15", 1, a[e], b[e], c[e])
        v1(e) == IF cond1(e) THEN CVal("A2233_general", 1, a[e], b[e], c[e]) ELSE v0(e)
        v2(e) == IF cond2(e) THEN CVal("A2233_b_eq_c", 1, a[e], b[e], c[e]) ELSE v1(e)
        v3(e) == IF cond3(e) THEN CZero ELSE v2(e)
        den1(e) == IF cond1(e)
                     THEN {3 * (b[e] - c[e]) * (b[e] - c[e]), b[e] * c[e], b[e], c[e],
                           3 * b[e] * c[e]}
                     ELSE {}
        den2(e) == IF cond2(e)
                     THEN {144 * c[e] * c[e] * (a[e] - c[e]) * (a[e] - c[e]), c[e],
                           c[e] - a[e]}
                     ELSE {}
    IN  [val |-> [e \in Elems |-> v3(e)],
         den |-> [e \in Elems |-> den1(e) \cup den2(e)]]

\* dki.py 146-180
A1111(a, b, c) ==
    LET cond1(e) == Pos(a, b, c, e) /\ (a[e] # b[e] /\ b[e] # c[e])
        cond2(e) == Pos(a, b, c, e) /\ (a[e] = b[e] /\ b[e] # c[e])
        cond3(e) == Pos(a, b, c, e) /\ (a[e] = c[e] /\ a[e] # b[e])
        cond4(e) == NonPos(a, b, c, e)
        any2   == \E e \in Elems : cond2(e)
        any3   == \E e \in Elems : cond3(e)
        dummy2 == A2233(c, a, a)
        dummy3 == A2233(b, a, a)
        times3(v) == [f |-> v.f, k |-> 3 * v.k, args |-> v.args]
        v0(e) == CVal("1/5", 1, a[e], b[e], c[e])
        v1(e) == IF cond1(e) THEN CVal("A1111_general", 1, a[e], b[e], c[e]) ELSE v0(e)
        v2(e) == IF cond2(e) THEN times3(dummy2.val[e]) ELSE v1(e)
        v3(e) == IF cond3(e) THEN times3(dummy3.val[e]) ELSE v2(e)
        v4(e) == IF cond4(e) THEN CZero ELSE v3(e)
        den1(e) == IF cond1(e)
                     THEN {18 * (a[e] - b[e]) * (a[e] - c[e]), a[e], b[e], c[e],
                           3 * a[e] * b[e] * c[e]}
                     ELSE {}
        den2(e) == IF any2 THEN dummy2.den[e] ELSE {}
        den3(e) == IF any3 THEN dummy3.den[e] ELSE {}
    IN  [val |-> [e \in Elems |-> v4(e)],
         den |-> [e \in Elems |-> den1(e) \cup den2(e) \cup den3(e)]]

\* dki.py 223-240
C2222(a, b, c) ==
    LET cond1(e) == Pos(a, b, c, e)
        cond2(e) == Pos(a, b, c, e) /\ b[e] # c[e]
        cond3(e) == NonPos(a, b, c, e)
        v0(e) == CZero
        v1(e) == IF cond1(e) THEN CVal("C2222_b_eq_c", 1, a[e], b[e], c[e]) ELSE v0(e)
        v2(e) == IF cond2(e) THEN CVal("C2222_general", 1, a[e], b[e], c[e]) ELSE v1(e)
        v3(e) == IF cond3(e) THEN CZero ELSE v2(e)
        den1(e) == IF cond1(e) THEN {24 * b[e] * b[e]} ELSE {}
        den2(e) == IF cond2(e)
                     THEN {18 * b[e] * (b[e] - c[e]) * (b[e] - c[e]), b[e] * c[e]}
                     ELSE {}
    IN  [val |-> [e \in Elems |-> v3(e)],
         den |-> [e \in Elems |-> den1(e) \cup den2(e)]]

\* dki.py 243-261
C2233(a, b, c) ==
    LET cond1(e) == Pos(a, b, c, e)
        cond2(e) == Pos(a, b, c, e) /\ b[e] # c[e]
        cond3(e) == NonPos(a, b, c, e)
        v0(e) == CZero
        v1(e) == IF cond1(e) THEN CVal("C2233_b_eq_c", 1, a[e], b[e], c[e]) ELSE v0(e)
        v2(e) == IF cond2(e) THEN CVal("C2233_general", 1, a[e], b[e], c[e]) ELSE v1(e)
        v3(e) == IF cond3(e) THEN CZero ELSE v2(e)
        den1(e) == IF cond1(e) THEN {12 * b[e] * b[e]} ELSE {}
        den2(e) == IF cond2(e)
                     THEN {3 * (b[e] - c[e]) * (b[e] - c[e]), b[e] * c[e]}
                     ELSE {}
    IN  [val |-> [e \in Elems |-> v3(e)],
         den |-> [e \in Elems |-> den1(e) \cup den2(e)]]

\* the values an argument array may hold: 0 (not positive) and positive ones
CoefVals == 0..(MaxEval + 1)

CInit ==
    /\ cpc = "init"
    /\ ca \in [Elems -> CoefVals]
    /\ cb \in [Elems -> CoefVals]
    /\ cc \in [Elems -> CoefVals]
    /\ cres = <<>>

CallA1111 ==
    /\ cpc = "init"
    /\ cres' = A1111(ca, cb, cc)
    /\ cpc' = "A1111"
    /\ UNCHANGED <<ca, cb, cc, tvars, mvars, fvars, dvars, evars, kvars, bvars>>

CallA2233 ==
    /\ cpc = "init"
    /\ cres' = A2233(ca, cb, cc)
    /\ cpc' = "A2233"
    /\ UNCHANGED <<ca, cb, cc, tvars, mvars, fvars, dvars, evars, kvars, bvars>>

CallC2222 ==
    /\ cpc = "init"
    /\ cres' = C2222(ca, cb, cc)
    /\ cpc' = "C2222"
    /\ UNCHANGED <<ca, cb, cc, tvars, mvars, fvars, dvars, evars, kvars, bvars>>

CallC2233 ==
    /\ cpc = "init"
    /\ cres' = C2233(ca, cb, cc)
    /\ cpc' = "C2233"
    /\ UNCHANGED <<ca, cb, cc, tvars, mvars, fvars, dvars, evars, kvars, bvars>>

CNext == CallA1111 \/ CallA2233 \/ CallC2222 \/ CallC2233

(***************************************************************************)
(* The least-squares fits ols_fit_dki / wls_fit_dki (dki.py 1044-1285)     *)
(*                                                                         *)
(* Signals are non-negative integers.  np.log is modelled by Log, the      *)
(* integer part of the logarithm to base 2, and np.exp by Exp, the power   *)
(* of 2, so that Exp(Log(x)) = x on the powers of 2 and Log is neither     *)
(* the identity nor injective.  Eigenvalues, their mean and the floor      *)
(* min_diffusivity are exact rationals [n, d] with d > 0 in lowest terms.  *)
(***************************************************************************)
Abs(x) == IF x < 0 THEN -x ELSE x

RECURSIVE GCD(_, _)
GCD(a, b) == IF b = 0 THEN a ELSE GCD(b, a % b)

\* the rational n / d (d > 0) in lowest terms
Rat(n, d) == LET g == GCD(Abs(n), d) IN [n |-> n \div g, d |-> d \div g]

RInt(x) == [n |-> x, d |-> 1]

RLess(x, y) == x.n * y.d < y.n * x.d

RAdd(x, y) ==
    LET g == GCD(x.d, y.d)
        l == (x.d \div g) * y.d
    IN  Rat(x.n * (l \div x.d) + y.n * (l \div y.d), l)

RDivInt(x, k) == Rat(x.n, x.d * k)

\* f[0] + ... + f[n]
RECURSIVE SumFn(_, _)
SumFn(f, n) == IF n < 0 THEN 0 ELSE f[n] + SumFn(f, n - 1)

\* the number of rows of a 0-based array
len(a) == Cardinality(DOMAIN a)

\* np.log on a sample x >= 1
RECURSIVE Log(_)
Log(x) == IF x <= 1 THEN 0 ELSE 1 + Log(x \div 2)

\* np.exp on an exponent y >= 0
RECURSIVE Exp(_)
Exp(y) == IF y <= 0 THEN 1 ELSE 2 * Exp(y - 1)

\* np.minimum(sig, min_signal), element by element
Minimum(sig, m) == [n \in DOMAIN sig |-> IF sig[n] <= m THEN sig[n] ELSE m]

\* np.maximum(sig, min_signal), element by element (lines 1137, 1258)
Maximum(sig, m) == [n \in DOMAIN sig |-> IF sig[n] >= m THEN sig[n] ELSE m]

\* np.dot of a matrix with a vector
Dot(M, v) == [j \in DOMAIN M |-> SumFn([n \in DOMAIN v |-> M[j][n] * v[n]], len(v) - 1)]

\* the 22 regression coefficients: 6 of the diffusion tensor, 15 of the
\* kurtosis tensor, log S0
Coefs == 0..21

\* A.T
MatT(A) == [j \in Coefs |-> [n \in DOMAIN A |-> A[n][j]]]

\* the transpose of the absolute values
abs_transpose(A) == [j \in Coefs |-> [n \in DOMAIN A |-> Abs(A[n][j])]]

\* np.linalg.pinv of a design matrix whose rows hold a single entry, +1 or
\* -1, in distinct columns: A A.T is the identity, the pseudo-inverse is A.T
pinv(A) == MatT(A)

\* design_matrix.min()
MatMin(A) ==
    LET S == {A[n][j] : n \in DOMAIN A, j \in Coefs}
    IN  CHOOSE x \in S : \A y \in S : x <= y

\* line 1084: tol = 1e-6 = 1 / TolDen
TolDen == 1000000

\* lines 1094, 1211: tol / -design_matrix.min(); a float division by -0.0
\* gives -inf, written [n |-> -1, d |-> 0], below which no number lies
floor_of(design) ==
    LET mn == MatMin(design)
    IN  IF mn < 0 THEN Rat(1, TolDen * (-mn))
        ELSE IF mn = 0 THEN [n |-> -1, d |-> 0]
        ELSE Rat(-1, TolDen * mn)

\* dti.from_lower_triangular: the symmetric tensor of the six elements
\* Dxx, Dxy, Dyy, Dxz, Dyz, Dzz (the column order of lines 1378-1383)
from_lower_triangular(D) ==
    LET ind == <<<<0, 1, 3>>, <<1, 2, 4>>, <<3, 4, 5>>>>
    IN  [r \in XYZ |-> [c \in XYZ |-> D[ind[r + 1][c + 1]]]]

Perms3 == {p \in [XYZ -> XYZ] : \A x \in XYZ : \E i \in XYZ : p[i] = x}

\* np.linalg.eigh of a diagonal tensor (line 1318): the eigenvalues in
\* ascending order, column c of eigenvecs the unit vector of the axis the
\* c-th eigenvalue sits on; equal eigenvalues keep the order of the axes
eigh(tensor) ==
    LET p == CHOOSE q \in Perms3 : \A i, j \in XYZ : i < j =>
                 \/ tensor[q[i]][q[i]] < tensor[q[j]][q[j]]
                 \/ (tensor[q[i]][q[i]] = tensor[q[j]][q[j]] /\ q[i] < q[j])
    IN  [eigenvals |-> [i \in XYZ |-> tensor[p[i]][p[i]]],
         eigenvecs |-> [r \in XYZ |-> [c \in XYZ |-> IF r = p[c] THEN 1 ELSE 0]]]

\* the decomposition left in the ascending order of np.linalg.eigh
decompose_ascending(tensor, min_diff) ==
    LET e == eigh(tensor)
    IN  [evals |-> [c \in XYZ |-> IF RLess(RInt(e.eigenvals[c]), min_diff)
                                    THEN min_diff ELSE RInt(e.eigenvals[c])],
         evecs |-> e.eigenvecs]

\* decompose_tensor (the algorithm of lines 1317-1326)
decompose_tensor(tensor, min_diff) ==
    LET e == eigh(tensor)
        order == [c \in XYZ |-> 2 - c]      \* eigenvals.argsort()[::-1]
        eigenvecs == [r \in XYZ |-> [c \in XYZ |-> e.eigenvecs[r][order[c]]]]
        eigenvals == [c \in XYZ |-> RInt(e.eigenvals[order[c]])]
    IN  [evals |-> [c \in XYZ |-> IF RLess(eigenvals[c], min_diff)
                                    THEN min_diff ELSE eigenvals[c]],
         evecs |-> eigenvecs]

\* evals.mean(0)
Mean3(evals) == RDivInt(RAdd(RAdd(evals[0], evals[1]), evals[2]), 3)

\* the eigenvector matrix written column after column
concatenate_columns(evals, evecs, KT_elements) ==
    [n \in 0..26 |-> IF n < 3 THEN evals[n]
                     ELSE IF n < 12 THEN evecs[(n - 3) % 3][(n - 3) \div 3]
                     ELSE KT_elements[n - 12]]

\* lines 1153-1154 and 1282-1283:
\* np.concatenate((evals, evecs[0], evecs[1], evecs[2], KT_elements)),
\* evecs[r] being row r of the eigenvector matrix
concatenate(evals, evecs, KT_elements) ==
    [n \in 0..26 |-> IF n < 3 THEN evals[n]
                     ELSE IF n < 12 THEN evecs[(n - 3) \div 3][(n - 3) % 3]
                     ELSE KT_elements[n - 12]]

\* result[7:22]
upper_slice(result) == [k \in 0..14 |-> result[7 + k]]

\* lines 1150, 1279: result[6:21]
kurtosis_slice(result) == [k \in 0..14 |-> result[6 + k]]

\* lines 1149, 1278: x**2, kept as the pair of its two factors, the square
\* of a rational with denominator 3 * TolDen being beyond 32 bits
Square(x) == <<x, x>>

\* lines 1143-1154 and, word for word, 1272-1283: from the solution of the
\* regression to the 27 parameters.  A kurtosis value is kept as the pair
\* of its numerator and of its denominator MD_square, its value being
\* num / (den[1] * den[2]).
params_of_solution(result, min_diff) ==
    LET DT_elements == [k \in 0..5 |-> result[k]]
        tensor == from_lower_triangular(DT_elements)
        dec == decompose_tensor(tensor, min_diff)
        MD_square == Square(Mean3(dec.evals))
        KT_elements == [k \in 0..14 |-> [num |-> kurtosis_slice(result)[k],
                                         den |-> MD_square]]
    IN  [tensor |-> tensor, evals |-> dec.evals, evecs |-> dec.evecs,
         dki_params |-> concatenate(dec.evals, dec.evecs, KT_elements)]

\* the logarithm of a sample that is not positive is -inf or nan, and so is
\* everything computed from it
NonFinite(sig) ==
    [finite |-> FALSE, sig |-> sig, dki_params |-> [n \in 0..26 |-> "nan"]]

Finite(sig, log_s, result, p) ==
    [finite |-> TRUE, sig |-> sig, log_s |-> log_s, result |-> result,
     tensor |-> p.tensor, evals |-> p.evals, evecs |-> p.evecs,
     dki_params |-> p.dki_params]

\* _ols_iter (dki.py 1105-1156): the locals at the return
ols_iter(inv, sig0, m, min_diff) ==
    LET sig == Maximum(sig0, m)
        log_s == [n \in DOMAIN sig |-> Log(sig[n])]
        result == Dot(inv, log_s)
    IN  IF \E n \in DOMAIN sig : sig[n] <= 0 THEN NonFinite(sig)
        ELSE Finite(sig, log_s, result, params_of_solution(result, min_diff))

\* _wls_iter (dki.py 1222-1285): the locals at the return.  W is diagonal,
\* and so is A.T W A for a design matrix with one entry per row, in distinct
\* columns; its pseudo-inverse holds the inverses of the non-zero entries.
wls_iter(A, inv, sig0, m, min_diff) ==
    LET sig == Maximum(sig0, m)
        log_s == [n \in DOMAIN sig |-> Log(sig[n])]
        ols_result == Dot(inv, log_s)
        fitted == Dot(A, ols_result)
        W == [n \in DOMAIN A |-> Exp(2 * fitted[n])]
        AT_W == [j \in Coefs |-> [n \in DOMAIN A |-> A[n][j] * W[n]]]
        AT_W_A == [j \in Coefs |->
                      SumFn([n \in DOMAIN A |-> AT_W[j][n] * A[n][j]], len(A) - 1)]
        AT_W_LS == Dot(AT_W, log_s)
        wls_result == [j \in Coefs |-> IF AT_W_A[j] = 0 THEN 0
                                       ELSE AT_W_LS[j] \div AT_W_A[j]]
    IN  IF \E n \in DOMAIN sig : sig[n] <= 0 THEN NonFinite(sig)
        ELSE Finite(sig, log_s, wls_result,
                    params_of_solution(wls_result, min_diff))

\* a stricter test than the one of lines 1085 and 1202
negative(m) == m < 0

\* lines 1085, 1202: if min_signal <= 0
rejected(m) == m <= 0

(***************************************************************************)
(* Inputs of the fits                                                      *)
(***************************************************************************)
MaxSig == 4         \* largest signal sample
MaxMinSignal == 2   \* largest min_signal

\* measurement n weighs coefficient cols[n] alone, by sgns[n]
DesignOf(cols, sgns) ==
    [n \in 0..(Len(cols) - 1) |->
        [j \in Coefs |-> IF j = cols[n + 1] THEN sgns[n + 1] ELSE 0]]

\* three measurements of the diagonal of the diffusion tensor and one of a
\* kurtosis element or of log S0; the last design has no negative entry
DesignInputs ==
    {DesignOf(<<0, 2, 5, k>>, <<1, 1, 1, -1>>) : k \in {6, 20, 21}}
        \cup {DesignOf(<<2, 0, 5, 6>>, <<1, -1, 1, 1>>)}
        \cup {DesignOf(<<5, 2, 0, 7>>, <<1, 1, 1, 1>>)}

VoxelInputs ==
    {[n \in 0..3 |-> IF n < 3 THEN d[n] ELSE k] :
        d \in [0..2 -> 0..MaxSig], k \in {1, MaxSig}}

PairInputs == {[n \in 0..3 |-> IF n = i THEN MaxSig ELSE 1] : i \in 0..3}

DataInputs ==
    {(0 :> v) : v \in VoxelInputs}
        \cup {(0 :> v) @@ (1 :> w) : v \in PairInputs, w \in PairInputs}

MinSignalInputs == (-1)..MaxMinSignal

\* a design matrix of full column rank: 22 measurements, measurement n
\* weighing coefficient (n + 5) % 22 alone, by SignOf of that coefficient
SignOf(j) == IF j \in 0..5 \/ j % 2 = 0 THEN 1 ELSE -1

FullDesign ==
    DesignOf([n \in 1..22 |-> (n + 4) % 22],
             [n \in 1..22 |-> SignOf((n + 4) % 22)])

\* the logarithms of the samples of a noiseless voxel, by coefficient: a
\* diagonal diffusion tensor with positive entries, up to two kurtosis
\* elements, log S0
ExponentInputs ==
    {[j \in Coefs |-> IF j \in {0, 2, 5} THEN d[j]
                      ELSE IF j = 21 THEN s
                      ELSE IF j \in w THEN 1
                      ELSE IF j - 1 \in w THEN 2
                      ELSE 0] :
        d \in [{0, 2, 5} -> 1..Log(MaxSig)], s \in {0, 1},
        w \in {{}, {6}, {13}, {19}}}

FullVoxels == {[n \in 0..21 |-> Exp(q[(n + 5) % 22])] : q \in ExponentInputs}

(***************************************************************************)
(* The fits as a state machine                                             *)
(***************************************************************************)
FInit ==
    /\ fpc = "start"
    /\ fit_method \in {"ols", "wls"}
    /\ min_signal \in MinSignalInputs
    /\ \/ design_matrix \in DesignInputs /\ data_flat \in DataInputs
       \/ \* the full design with samples no clamping changes, which keeps
          \* the fitted diffusion tensor diagonal
          /\ design_matrix = FullDesign
          /\ \E v \in FullVoxels : data_flat = (0 :> v)
          /\ \A n \in DOMAIN data_flat[0] : min_signal <= data_flat[0][n]
    /\ min_diffusivity = <<>>
    /\ inv_design = <<>>
    /\ vox = 0
    /\ dki_params = <<>>
    /\ locals = <<>>

\* lines 1085-1086, 1202-1203: raise ValueError('min_signal must be > 0')
FitRaise ==
    /\ fpc = "start"
    /\ rejected(min_signal)
    /\ fpc' = "raised"
    /\ UNCHANGED <<fit_method, design_matrix, data_flat, min_signal,
                   min_diffusivity, inv_design, vox, dki_params, locals>>
    /\ UNCHANGED <<tvars, mvars, cvars, dvars, evars, kvars, bvars>>

\* lines 1089-1095, 1206-1212: the output is allocated, no row written yet
FitPrepare ==
    /\ fpc = "start"
    /\ ~rejected(min_signal)
    /\ min_diffusivity' = floor_of(design_matrix)
    /\ inv_design' = pinv(design_matrix)
    /\ vox' = 0
    /\ fpc' = "loop"
    /\ UNCHANGED <<fit_method, design_matrix, data_flat, min_signal,
                   dki_params, locals>>
    /\ UNCHANGED <<tvars, mvars, cvars, dvars, evars, kvars, bvars>>

\* a turn of the loop that fits the first voxel again
FitVoxel_first ==
    /\ fpc = "loop"
    /\ vox < len(data_flat)
    /\ locals' = IF fit_method = "ols"
                   THEN ols_iter(inv_design, data_flat[0], min_signal,
                                 min_diffusivity)
                   ELSE wls_iter(design_matrix, inv_design, data_flat[0],
                                 min_signal, min_diffusivity)
    /\ dki_params' = [v \in 0..vox |-> IF v = vox THEN locals'.dki_params
                                       ELSE dki_params[v]]
    /\ vox' = vox + 1
    /\ UNCHANGED <<fpc, fit_method, design_matrix, data_flat, min_signal,
                   min_diffusivity, inv_design>>
    /\ UNCHANGED <<tvars, mvars, cvars, dvars, evars, kvars, bvars>>

\* lines 1098-1100, 1215-1217: one turn of the loop
FitVoxel ==
    /\ fpc = "loop"
    /\ vox < len(data_flat)
    /\ locals' = IF fit_method = "ols"
                   THEN ols_iter(inv_design, data_flat[vox], min_signal,
                                 min_diffusivity)
                   ELSE wls_iter(design_matrix, inv_design, data_flat[vox],
                                 min_signal, min_diffusivity)
    /\ dki_params' = [v \in 0..vox |-> IF v = vox THEN locals'.dki_params
                                       ELSE dki_params[v]]
    /\ vox' = vox + 1
    /\ UNCHANGED <<fpc, fit_method, design_matrix, data_flat, min_signal,
                   min_diffusivity, inv_design>>
    /\ UNCHANGED <<tvars, mvars, cvars, dvars, evars, kvars, bvars>>

\* lines 1102, 1219: return dki_params
FitReturn ==
    /\ fpc = "loop"
    /\ vox = len(data_flat)
    /\ fpc' = "done"
    /\ UNCHANGED <<fit_method, design_matrix, data_flat, min_signal,
                   min_diffusivity, inv_design, vox, dki_params, locals>>
    /\ UNCHANGED <<tvars, mvars, cvars, dvars, evars, kvars, bvars>>

FNext == FitRaise \/ FitPrepare \/ FitVoxel \/ FitReturn

(***************************************************************************)
(* dki_design_matrix (dki.py 1356-1401)                                    *)
(*                                                                         *)
(* b-values and the coordinates of the directions are integers; an entry   *)
(* of B is an exact rational, the quartic columns being divided by 6.      *)
(***************************************************************************)
\* the row with the cross terms of the diffusion tensor counted once
design_row_single_cross(b, n) ==
    LET row == <<
            RInt(-b * n[0] * n[0]),
            RInt(-b * n[0] * n[1]),
            RInt(-b * n[1] * n[1]),
            RInt(-b * n[0] * n[2]),
            RInt(-b * n[1] * n[2]),
            RInt(-b * n[2] * n[2]),
            Rat(b * b * n[0] * n[0] * n[0] * n[0], 6),
            Rat(b * b * n[1] * n[1] * n[1] * n[1], 6),
            Rat(b * b * n[2] * n[2] * n[2] * n[2], 6),
            Rat(4 * b * b * n[0] * n[0] * n[0] * n[1], 6),
            Rat(4 * b * b * n[0] * n[0] * n[0] * n[2], 6),
            Rat(4 * b * b * n[1] * n[1] * n[1] * n[0], 6),
            Rat(4 * b * b * n[1] * n[1] * n[1] * n[2], 6),
            Rat(4 * b * b * n[2] * n[2] * n[2] * n[0], 6),
            Rat(4 * b * b * n[2] * n[2] * n[2] * n[1], 6),
            RInt(b * b * n[0] * n[0] * n[1] * n[1]),
            RInt(b * b * n[0] * n[0] * n[2] * n[2]),
            RInt(b * b * n[1] * n[1] * n[2] * n[2]),
            RInt(2 * b * b * n[0] * n[0] * n[1] * n[2]),
            RInt(2 * b * b * n[1] * n[1] * n[0] * n[2]),
            RInt(2 * b * b * n[2] * n[2] * n[0] * n[1]),
            RInt(1) >>
    IN  [j \in Coefs |-> row[j + 1]]

\* the row with the quadratic columns not weighted by b
design_row_unweighted(b, n) ==
    LET row == <<
            RInt(-n[0] * n[0]),
            RInt(-2 * n[0] * n[1]),
            RInt(-n[1] * n[1]),
            RInt(-2 * n[0] * n[2]),
            RInt(-2 * n[1] * n[2]),
            RInt(-n[2] * n[2]),
            Rat(b * b * n[0] * n[0] * n[0] * n[0], 6),
            Rat(b * b * n[1] * n[1] * n[1] * n[1], 6),
            Rat(b * b * n[2] * n[2] * n[2] * n[2], 6),
            Rat(4 * b * b * n[0] * n[0] * n[0] * n[1], 6),
            Rat(4 * b * b * n[0] * n[0] * n[0] * n[2], 6),
            Rat(4 * b * b * n[1] * n[1] * n[1] * n[0], 6),
            Rat(4 * b * b * n[1] * n[1] * n[1] * n[2], 6),
            Rat(4 * b * b * n[2] * n[2] * n[2] * n[0], 6),
            Rat(4 * b * b * n[2] * n[2] * n[2] * n[1], 6),
            RInt(b * b * n[0] * n[0] * n[1] * n[1]),
            RInt(b * b * n[0] * n[0] * n[2] * n[2]),
            RInt(b * b * n[1] * n[1] * n[2] * n[2]),
            RInt(2 * b * b * n[0] * n[0] * n[1] * n[2]),
            RInt(2 * b * b * n[1] * n[1] * n[0] * n[2]),
            RInt(2 * b * b * n[2] * n[2] * n[0] * n[1]),
            RInt(1) >>
    IN  [j \in Coefs |-> row[j + 1]]

\* lines 1378-1399: row B[m, :] for the b-value b and the direction n
design_row(b, n) ==
    LET row == <<
            RInt(-b * n[0] * n[0]),                             \* 1378
            RInt(-2 * b * n[0] * n[1]),                         \* 1379
            RInt(-b * n[1] * n[1]),                             \* 1380
            RInt(-2 * b * n[0] * n[2]),                         \* 1381
            RInt(-2 * b * n[1] * n[2]),                         \* 1382
            RInt(-b * n[2] * n[2]),                             \* 1383
            Rat(b * b * n[0] * n[0] * n[0] * n[0], 6),          \* 1384
            Rat(b * b * n[1] * n[1] * n[1] * n[1], 6),          \* 1385
            Rat(b * b * n[2] * n[2] * n[2] * n[2], 6),          \* 1386
            Rat(4 * b * b * n[0] * n[0] * n[0] * n[1], 6),      \* 1387
            Rat(4 * b * b * n[0] * n[0] * n[0] * n[2], 6),      \* 1388
            Rat(4 * b * b * n[1] * n[1] * n[1] * n[0], 6),      \* 1389
            Rat(4 * b * b * n[1] * n[1] * n[1] * n[2], 6),      \* 1390
            Rat(4 * b * b * n[2] * n[2] * n[2] * n[0], 6),      \* 1391
            Rat(4 * b * b * n[2] * n[2] * n[2] * n[1], 6),      \* 1392
            RInt(b * b * n[0] * n[0] * n[1] * n[1]),            \* 1393
            RInt(b * b * n[0] * n[0] * n[2] * n[2]),            \* 1394
            RInt(b * b * n[1] * n[1] * n[2] * n[2]),            \* 1395
            RInt(2 * b * b * n[0] * n[0] * n[1] * n[2]),        \* 1396
            RInt(2 * b * b * n[1] * n[1] * n[0] * n[2]),        \* 1397
            RInt(2 * b * b * n[2] * n[2] * n[0] * n[1]),        \* 1398
            RInt(1) >>                                          \* 1399
    IN  [j \in Coefs |-> row[j + 1]]

\* dki.py 1374-1401
dki_design_matrix(bv, bvs) == [m \in DOMAIN bv |-> design_row(bv[m], bvs[m])]

MaxB == 2       \* largest b-value

BvecInputs == [XYZ -> {-1, 0, 1}]

SecondBvecs == {Vec3(1, 0, 0), Vec3(0, 0, 0), Vec3(1, 1, 1)}

DInit ==
    /\ dpc = "init"
    /\ bvals \in [0..1 -> 0..MaxB]
    /\ \E n0 \in BvecInputs, n1 \in SecondBvecs : bvecs = (0 :> n0) @@ (1 :> n1)
    /\ B_design = <<>>

DesignBuild ==
    /\ dpc = "init"
    /\ B_design' = dki_design_matrix(bvals, bvecs)
    /\ dpc' = "built"
    /\ UNCHANGED <<bvals, bvecs>>
    /\ UNCHANGED <<tvars, mvars, cvars, fvars, evars, kvars, bvars>>

DNext == DesignBuild

(***************************************************************************)
(* The Carlson integrals rfpython and rdpython (dki.py 30-135)             *)
(*                                                                         *)
(* The arguments are arrays of one double.  A double is modelled exactly   *)
(* in two bands.  In the band "subnormal" a value is an integer multiple   *)
(* of the smallest positive double 2^-1074: sums are exact, a product of   *)
(* two square roots, a quotient by 3 and a product by 0.25 or 0.20 are     *)
(* rounded to the nearest multiple (ties to even), and no sum overflows.   *)
(* In the band "top" a value is a multiple m < 8 of 2^1021 and a sum that  *)
(* reaches 8 multiples (2^1024) overflows to inf; only equal arguments     *)
(* are drawn from it, for which no other rounding occurs.  A value is a    *)
(* record [k, m]: k is "fin" (m multiples), "inf" or "nan".  A deviation   *)
(* is a ratio of doubles: [k, n, d] stands for n / d when k = "fin".       *)
(***************************************************************************)
Fin(m) == [k |-> "fin", m |-> m]

NaN == [k |-> "nan", m |-> 0]

Inf == [k |-> "inf", m |-> 0]

\* n / d (d > 0) rounded to the nearest integer, ties to even
RoundHalfEven(n, d) ==
    LET q == Abs(n) \div d
        r == Abs(n) % d
        up == 2 * r > d \/ (2 * r = d /\ q % 2 = 1)
        a == IF up THEN q + 1 ELSE q
    IN  IF n < 0 THEN -a ELSE a

\* sqrt(P) + sqrt(Q) >= m, for naturals P, Q and an integer m
SqrtSumGE(P, Q, m) ==
    IF m <= 0 THEN TRUE
    ELSE LET t == m * m - P - Q
         IN  IF t <= 0 THEN TRUE ELSE 4 * P * Q >= t * t

\* sqrt(p) + sqrt(q) rounded to the nearest integer
RoundSqrtSum(p, q) ==
    CHOOSE k \in 0..(p + q + 1) :
        /\ SqrtSumGE(4 * p, 4 * q, 2 * k - 1)
        /\ ~SqrtSumGE(4 * p, 4 * q, 2 * k + 1)

\* a sum of multiples in the band: 2^1024 and above is inf
BandSum(band, s) == IF band = "top" /\ s >= 8 THEN Inf ELSE Fin(s)

\* lines 112, 125: (xn+yn+zn)/3.0; lines 56, 71: (xn+yn+3.0*zn)*0.20
mean_of(fun, band, x, y, z) ==
    IF x.k = "nan" \/ y.k = "nan" \/ z.k = "nan" THEN NaN
    ELSE LET s == IF fun = "rf" THEN BandSum(band, x.m + y.m + z.m)
                  ELSE BandSum(band, x.m + y.m + 3 * z.m)
         IN  IF s.k = "inf" THEN Inf
             ELSE Fin(RoundHalfEven(s.m, IF fun = "rf" THEN 3 ELSE 5))

\* lines 113-115: 2.0 - (mu+xn)/mu; lines 57-59: (mu-xn)/mu.  With mu = inf
\* the quotient is inf/inf = nan; with mu = 0 it is 0/0 = nan or v/0 = inf.
dev_of(m, v) ==
    IF m.k = "nan" \/ v.k = "nan" \/ m.k = "inf" THEN [k |-> "nan", n |-> 0, d |-> 1]
    ELSE IF m.m = 0
      THEN IF v.m = 0 THEN [k |-> "nan", n |-> 0, d |-> 1]
           ELSE [k |-> "inf", n |-> 0, d |-> 1]
    ELSE [k |-> "fin", n |-> m.m - v.m, d |-> m.m]

devs_of(m, x, y, z) == <<dev_of(m, x), dev_of(m, y), dev_of(m, z)>>

\* line 98: errtol = (d1mach[2]/3.0)**(1.0/6.0) = 0.002049..., cut to
\* ErrTolNum / ErrTolDen
ErrTolNum == 2049

ErrTolDen == 1000000

\* lines 116-117, 60-61: epslon = np.max(...) is nan when a deviation is;
\* nan >= errtol is false, inf >= errtol is true
loop_continues(dv) ==
    IF \E i \in 1..3 : dv[i].k = "nan" THEN FALSE
    ELSE IF \E i \in 1..3 : dv[i].k = "inf" THEN TRUE
    ELSE \E i \in 1..3 : Abs(dv[i].n) * ErrTolDen >= ErrTolNum * Abs(dv[i].d)

\* lines 118-121, 62-65: lamda; the square root of a negative number is
\* nan, and so is lamda
lamda_of(x, y, z) ==
    IF x.k = "nan" \/ x.m < 0 \/ y.m < 0 \/ z.m < 0 THEN NaN
    ELSE Fin(RoundSqrtSum(x.m * y.m, x.m * z.m) + RoundSqrtSum(y.m * z.m, 0))

\* lines 122-124, 68-70: (arg + lamda) * 0.250
quarter_sum(v, l) ==
    IF l.k = "nan" \/ v.k = "nan" THEN NaN ELSE Fin(RoundHalfEven(v.m + l.m, 4))

\* lines 118-124, 62-70: one duplication
duplicate(x, y, z) ==
    LET l == lamda_of(x, y, z)
    IN  <<quarter_sum(x, l), quarter_sum(y, l), quarter_sum(z, l)>>

\* power4 is a power of 4: [k |-> "pow4", e |-> n] stands for 4^-n, which
\* is a double up to 4^-537 = 2^-1074, the smallest positive one
SmallestPow4 == 537

One == [k |-> "pow4", e |-> 0]

\* line 67: power4*0.250; a quarter of the smallest positive double is 0.0
quarter(p) ==
    IF p.k = "pow4" /\ p.e < SmallestPow4 THEN [k |-> "pow4", e |-> p.e + 1]
    ELSE [k |-> "zero", e |-> 0]

\* line 66: sigma + power4/(znroot*(zn+lamda)) in the subnormal band, where
\* the loop runs.  znroot*(zn+lamda) is below 2^-1075 and underflows to 0.0
\* (or is nan); power4/0.0 is inf, 0.0/0.0 is nan.  sigma keeps the class
\* of its value and the operands of the term added last.
sigma_add(s, p, z, l) ==
    LET den  == IF z.k = "nan" \/ l.k = "nan" \/ z.m < 0 THEN "nan" ELSE "zero"
        term == IF den = "nan" \/ p.k = "zero" THEN "nan" ELSE "inf"
    IN  [k    |-> IF s.k = "nan" \/ term = "nan" THEN "nan" ELSE "inf",
         last |-> [power4 |-> p, zn |-> z, lamda |-> l]]

\* lines 62-70: one turn of rdpython's loop up to the new arguments
rd_turn(x, y, z, s, p) ==
    LET l == lamda_of(x, y, z)
        d == duplicate(x, y, z)
    IN  [lamda |-> l,
         sigma |-> sigma_add(s, p, z, l),
         power4 |-> quarter(p),
         xn |-> d[1], yn |-> d[2], zn |-> d[3]]

\* lines 118-124: one turn of rfpython's loop up to the new arguments
rf_turn(x, y, z, s, p) ==
    LET l == lamda_of(x, y, z)
        d == duplicate(x, y, z)
    IN  [lamda |-> l, sigma |-> s, power4 |-> p,
         xn |-> d[1], yn |-> d[2], zn |-> d[3]]

\* lines 131-135: drf = s / sqrt(mu), a number unless a deviation is nan
\* or mu is negative; s is exactly 1.0 when the three deviations are 0.
\* lines 77-85: drd; in the subnormal band mu*sqrt(mu) underflows to 0 and
\* the quotient is inf, unless a deviation is nan or mu is negative
result_of(fun, m, dv) ==
    IF (\E i \in 1..3 : dv[i].k = "nan") \/ m.k # "fin" \/ m.m < 0
      THEN [status |-> "returned", k |-> "nan", mu |-> m, devs |-> dv]
    ELSE IF fun = "rd"
      THEN [status |-> "returned", k |-> "inf", mu |-> m, devs |-> dv]
    ELSE [status |-> "returned", k |-> "num", mu |-> m, devs |-> dv]

MaxArg == 3     \* largest argument, in multiples of the band's unit
MaxIter == 540  \* the turns of the while loop that are followed

ArgInputs == {Fin(m) : m \in (-1)..MaxArg}

EInit ==
    /\ epc = "init"
    /\ efun \in {"rf", "rd"}
    /\ \/ /\ eband = "subnormal"
          /\ ex \in ArgInputs /\ ey \in ArgInputs /\ ez \in ArgInputs
       \/ /\ eband = "top" /\ efun = "rf"
          /\ \E c \in 1..MaxArg : ex = Fin(c) /\ ey = Fin(c) /\ ez = Fin(c)
    /\ xn = <<>> /\ yn = <<>> /\ zn = <<>> /\ mu = <<>> /\ devs = <<>>
    /\ iters = 0
    /\ lamda = <<>> /\ sigma = <<>> /\ power4 = <<>>
    /\ eres = <<>>

\* lines 108-116, 50-60: up to the first test of the while loop
EllEnter ==
    /\ epc = "init"
    /\ xn' = ex /\ yn' = ey /\ zn' = ez
    /\ mu' = mean_of(efun, eband, ex, ey, ez)
    /\ devs' = devs_of(mu', ex, ey, ez)
    /\ IF efun = "rd"
         THEN sigma' = [k |-> "zero", last |-> <<>>] /\ power4' = One
         ELSE UNCHANGED <<sigma, power4>>
    /\ epc' = "loop"
    /\ UNCHANGED <<efun, eband, ex, ey, ez, iters, lamda, eres>>
    /\ UNCHANGED <<tvars, mvars, cvars, fvars, dvars, kvars, bvars>>

\* lines 117-129, 61-75: one turn of the while loop
EllLoop ==
    /\ epc = "loop"
    /\ loop_continues(devs)
    /\ iters < MaxIter
    /\ LET t == IF efun = "rd" THEN rd_turn(xn, yn, zn, sigma, power4)
                ELSE rf_turn(xn, yn, zn, sigma, power4)
       IN  /\ lamda' = t.lamda /\ sigma' = t.sigma /\ power4' = t.power4
           /\ xn' = t.xn /\ yn' = t.yn /\ zn' = t.zn
           /\ mu' = mean_of(efun, eband, t.xn, t.yn, t.zn)
           /\ devs' = devs_of(mu', t.xn, t.yn, t.zn)
    /\ iters' = iters + 1
    /\ UNCHANGED <<epc, efun, eband, ex, ey, ez, eres>>
    /\ UNCHANGED <<tvars, mvars, cvars, fvars, dvars, kvars, bvars>>

\* lines 131-135, 77-85: the loop is left, the value is returned
EllExit ==
    /\ epc = "loop"
    /\ ~loop_continues(devs)
    /\ eres' = result_of(efun, mu, devs)
    /\ epc' = "done"
    /\ UNCHANGED <<efun, eband, ex, ey, ez, xn, yn, zn, mu, devs, iters,
                   lamda, sigma, power4>>
    /\ UNCHANGED <<tvars, mvars, cvars, fvars, dvars, kvars, bvars>>

ENext == EllEnter \/ EllLoop \/ EllExit

(***************************************************************************)
(* DKIModel (lines 743-817): construction and fit                          *)
(***************************************************************************)
\* a function object and a string, as values of the argument fit_method
Function(name) == [type |-> "function", val |-> name]

Str(name) == [type |-> "str", val |-> name]

callable(f) == f.type = "function"

\* a table that knows the ordinary least squares fit alone
only_ols_methods ==
    [k \in {"WLS", "OLS", "UWLLS", "ULLS",
            "WLS_DKI", "OLS_DKI", "UWLLS_DKI", "ULLS_DKI"} |->
        [type |-> "function", val |-> "ols_fit_dki"]]

\* lines 1404-1412
common_fit_methods ==
    [k \in {"WLS", "OLS", "UWLLS", "ULLS",
            "WLS_DKI", "OLS_DKI", "UWLLS_DKI", "ULLS_DKI"} |->
        IF k \in {"WLS", "UWLLS", "WLS_DKI", "UWLLS_DKI"}
          THEN Function("wls_fit_dki") ELSE Function("ols_fit_dki")]

\* data[mask]: the rows where the mask is true, in order
Selected(msk) == {v \in DOMAIN msk : msk[v]}

RankIn(S, v) == Cardinality({u \in S : u < v})

take_mask(rows, msk) ==
    [n \in 0..(Cardinality(Selected(msk)) - 1) |->
        rows[CHOOSE v \in Selected(msk) : RankIn(Selected(msk), v) = n]]

\* the array a fit method returns for a call: one row of 27 values per row
\* of the data it was given, each value a term of the call that made it
Returned(call) ==
    [v \in DOMAIN call.data |->
        [k \in 0..26 |-> [f |-> call.f.val, sig |-> call.data[v], k |-> k]]]

\* np.zeros(data.shape[:-1] + (27,))
zeros(rows) ==
    [v \in DOMAIN rows |-> [k \in 0..26 |-> [f |-> "zeros", sig |-> <<>>, k |-> k]]]

\* the rows written at the front of the output, whatever the mask
put_front(out, msk, rows) ==
    [v \in DOMAIN out |-> IF v \in DOMAIN rows THEN rows[v] ELSE out[v]]

\* dki_params[mask, :] = params_in_mask
put_mask(out, msk, rows) ==
    [v \in DOMAIN out |->
        IF msk[v] THEN rows[RankIn(Selected(msk), v)] ELSE out[v]]

GtabInputs ==
    { [bvals |-> (0 :> 0) @@ (1 :> 1),
       bvecs |-> (0 :> Vec3(0, 0, 0)) @@ (1 :> Vec3(1, 0, 0))],
      [bvals |-> (0 :> 1) @@ (1 :> 2),
       bvecs |-> (0 :> Vec3(0, 1, 0)) @@ (1 :> Vec3(0, 0, 1))] }

FitMethodInputs ==
    {Str(k) : k \in DOMAIN common_fit_methods \cup {"NLLS", "ols_dki"}}
    \cup {Function("user_fit"), Function("ols_fit_dki")}

ArgsInputs == {<<>>, <<2>>}

KwargsInputs == {{}, {<<"min_signal", 2>>}}

SampleInputs == {(0 :> 2) @@ (1 :> 1), (0 :> 4) @@ (1 :> 3)}

ModelDataInputs ==
    {(0 :> v) : v \in SampleInputs}
    \cup {(0 :> v) @@ (1 :> w) : v \in SampleInputs, w \in SampleInputs}

MaskInputs(rows) ==
    {None} \cup {[type |-> "ndarray", val |-> m] : m \in [DOMAIN rows -> BOOLEAN]}

KInit ==
    /\ kpc = "new"
    /\ gtab \in GtabInputs
    /\ init_fit_method \in FitMethodInputs
    /\ init_args \in ArgsInputs
    /\ init_kwargs \in KwargsInputs
    /\ self = <<>>
    /\ fit_data = <<>> /\ fit_mask = <<>>
    /\ invoked = <<>> /\ exc = "none" /\ fit_out = <<>>

\* lines 775-780: the name is not a key of common_fit_methods
DKIModel_init_raise ==
    /\ kpc = "new"
    /\ ~callable(init_fit_method)
    /\ init_fit_method.val \notin DOMAIN common_fit_methods
    /\ exc' = "ValueError"
    /\ kpc' = "raised"
    /\ UNCHANGED <<gtab, init_fit_method, init_args, init_kwargs, self,
                   fit_data, fit_mask, invoked, fit_out>>
    /\ UNCHANGED <<tvars, mvars, cvars, fvars, dvars, evars, bvars>>

\* lines 775-784
DKIModel_init ==
    /\ kpc = "new"
    /\ callable(init_fit_method)
         \/ init_fit_method.val \in DOMAIN common_fit_methods
    /\ LET base   == "gtab" :> gtab
           method == IF ~callable(init_fit_method)
                       THEN "fit_method" :> common_fit_methods[init_fit_method.val]
                       ELSE <<>>
           rest   == ("design_matrix" :> dki_design_matrix(gtab.bvals, gtab.bvecs))
                     @@ ("args" :> init_args) @@ ("kwargs" :> init_kwargs)
       IN  self' = base @@ method @@ rest
    /\ kpc' = "built"
    /\ UNCHANGED <<gtab, init_fit_method, init_args, init_kwargs,
                   fit_data, fit_mask, invoked, exc, fit_out>>
    /\ UNCHANGED <<tvars, mvars, cvars, fvars, dvars, evars, bvars>>

\* lines 807-808: the object has no attribute fit_method
DKIModel_fit_raise ==
    /\ kpc = "built"
    /\ "fit_method" \notin DOMAIN self
    /\ \E rows \in ModelDataInputs : \E msk \in MaskInputs(rows) :
          /\ fit_data' = rows
          /\ fit_mask' = msk
    /\ exc' = "AttributeError"
    /\ kpc' = "raised"
    /\ UNCHANGED <<gtab, init_fit_method, init_args, init_kwargs, self,
                   invoked, fit_out>>
    /\ UNCHANGED <<tvars, mvars, cvars, fvars, dvars, evars, bvars>>

\* lines 799-817
DKIModel_fit ==
    /\ kpc = "built"
    /\ "fit_method" \in DOMAIN self
    /\ \E rows \in ModelDataInputs : \E msk \in MaskInputs(rows) :
          LET data_in_mask   == IF msk # None THEN take_mask(rows, msk.val)
                                ELSE rows
              call           == [f |-> self["fit_method"],
                                 design_matrix |-> self["design_matrix"],
                                 data |-> data_in_mask,
                                 args |-> self["args"],
                                 kwargs |-> self["kwargs"]]
              params_in_mask == Returned(call)
              params         == IF msk = None THEN params_in_mask
                                ELSE put_mask(zeros(rows), msk.val, params_in_mask)
          IN  /\ fit_data' = rows
              /\ fit_mask' = msk
              /\ invoked' = call
              /\ fit_out' = [model |-> self, model_params |-> params]
    /\ kpc' = "fitted"
    /\ UNCHANGED <<gtab, init_fit_method, init_args, init_kwargs, self, exc>>
    /\ UNCHANGED <<tvars, mvars, cvars, fvars, dvars, evars, bvars>>

KNext == DKIModel_init_raise \/ DKIModel_init \/ DKIModel_fit_raise \/ DKIModel_fit

(***************************************************************************)
(* setup_helpers.py: add_flag_checking, Checker (lines 76-166)             *)
(*                                                                         *)
(* The compiler is what the build machine makes of a test program: for     *)
(* each code whether compiling it raises CompileError and whether linking  *)
(* the object raises LinkError or TypeError.                               *)
(***************************************************************************)
\* what compiling alone tells
can_compile(tools, compile_flags, link_flags, code) ==
    tools.compile[code] # "CompileError"

\* lines 109-131; the temporary directory is made and removed and the
\* working directory is restored on every path
can_compile_link(tools, compile_flags, link_flags, code) ==
    IF tools.compile[code] = "CompileError" THEN FALSE
    ELSE IF tools.link[code] \in {"LinkError", "TypeError"} THEN FALSE
    ELSE TRUE

\* the truth value of def_var in `if def_var:`
truthy(v) == v.type # "NoneType" /\ v.val # ""

\* str.format of a bool
format_bool(b) == IF b THEN "True" ELSE "False"

\* line 146: 'DEF {0} = {1}'.format(def_var, flags_good), by its words
format_def(def_var, flags_good) == <<"DEF", def_var.val, "=", format_bool(flags_good)>>

\* line 158: the first line written
ConfigHeader == <<"# Automatically generated; do not edit">>

\* line 138: dirname(CONFIG_PXI)
config_dir == "build"

Entry(cf, lf, code, dv) ==
    [compile_flags |-> cf, link_flags |-> lf, code |-> code, def_var |-> dv]

EntryInputs ==
    {Entry(<<"-fopenmp">>, <<"-fopenmp">>, "omp", Str("HAVE_OPENMP")),
     Entry(<<"-msse2", "-mfpmath=sse">>, <<>>, "sse", None),
     Entry(<<>>, <<"-lm">>, "libm", Str("HAVE_LIBM"))}

CodeInputs == {e.code : e \in EntryInputs}

MaxEntries == 2     \* most entries in flag_defs

FlagDefInputs == UNION {[1..n -> EntryInputs] : n \in 0..MaxEntries}

CompilerInputs ==
    [compile : [CodeInputs -> {"ok", "CompileError"}],
     link    : [CodeInputs -> {"ok", "LinkError", "TypeError"}]]

Extension(ca_, la_) ==
    [extra_compile_args |-> ca_, extra_link_args |-> la_, include_dirs |-> <<>>]

ExtensionInputs ==
    {<<>>,
     <<Extension(<<>>, <<>>)>>,
     <<Extension(<<"-O2">>, <<>>), Extension(<<>>, <<"-s">>)>>}

BInit ==
    /\ bpc = "loop"
    /\ flag_defs \in FlagDefInputs
    /\ compiler \in CompilerInputs
    /\ extensions \in ExtensionInputs
    /\ checked = 0
    /\ def_vars = <<>>
    /\ good_compile_flags = <<>>
    /\ good_link_flags = <<>>
    /\ config_pxi = <<>>
    /\ parent_built = <<>>

\* lines 139-153: one turn of the loop over flag_defs
CheckEntry ==
    /\ bpc = "loop"
    /\ checked < Len(flag_defs)
    /\ LET entry      == flag_defs[checked + 1]
           flags_good == can_compile_link(compiler, entry.compile_flags,
                                          entry.link_flags, entry.code)
       IN  /\ def_vars' = IF truthy(entry.def_var)
                            THEN Append(def_vars, format_def(entry.def_var, flags_good))
                            ELSE def_vars
           /\ good_compile_flags' = IF flags_good
                                      THEN good_compile_flags \o entry.compile_flags
                                      ELSE good_compile_flags
           /\ good_link_flags' = IF flags_good
                                   THEN good_link_flags \o entry.link_flags
                                   ELSE good_link_flags
    /\ checked' = checked + 1
    /\ UNCHANGED <<bpc, flag_defs, compiler, extensions, config_pxi, parent_built>>
    /\ UNCHANGED <<tvars, mvars, cvars, fvars, dvars, evars, kvars>>

\* lines 154-166: the file, the extensions, the parent's build_extensions
FinishBuild ==
    /\ bpc = "loop"
    /\ checked = Len(flag_defs)
    /\ config_pxi' = IF def_vars # <<>> THEN ConfigHeader \o def_vars ELSE config_pxi
    /\ extensions' =
          IF def_vars # <<>> \/ good_compile_flags # <<>> \/ good_link_flags # <<>>
            THEN [n \in DOMAIN extensions |->
                    [extra_compile_args |->
                         extensions[n].extra_compile_args \o good_compile_flags,
                     extra_link_args |->
                         extensions[n].extra_link_args \o good_link_flags,
                     include_dirs |->
                         IF def_vars # <<>>
                           THEN Append(extensions[n].include_dirs, config_dir)
                           ELSE extensions[n].include_dirs]]
            ELSE extensions
    /\ parent_built' = [called |-> TRUE, extensions |-> extensions']
    /\ bpc' = "done"
    /\ UNCHANGED <<flag_defs, compiler, checked, def_vars, good_compile_flags,
                   good_link_flags>>
    /\ UNCHANGED <<tvars, mvars, cvars, fvars, dvars, evars, kvars>>

BNext == CheckEntry \/ FinishBuild

(***************************************************************************)
(* Specifications: each part of the module runs on its own variables, the  *)
(* others stay as they are.                                                *)
(***************************************************************************)
TIdle == tpc = "off" /\ kt = <<>> /\ Basis = <<>> /\ W4D = <<>> /\ tcall = <<>> /\ rot = <<>>

MIdle == mpc = "off" /\ model_params = <<>> /\ margs = <<>> /\ metric = <<>>

CIdle == cpc = "off" /\ ca = <<>> /\ cb = <<>> /\ cc = <<>> /\ cres = <<>>

FIdle ==
    /\ fpc = "off" /\ fit_method = <<>> /\ design_matrix = <<>>
    /\ data_flat = <<>> /\ min_signal = <<>> /\ min_diffusivity = <<>>
    /\ inv_design = <<>> /\ vox = <<>> /\ dki_params = <<>> /\ locals = <<>>

DIdle == dpc = "off" /\ bvals = <<>> /\ bvecs = <<>> /\ B_design = <<>>

EIdle ==
    /\ epc = "off" /\ efun = <<>> /\ eband = <<>>
    /\ ex = <<>> /\ ey = <<>> /\ ez = <<>> /\ xn = <<>> /\ yn = <<>> /\ zn = <<>>
    /\ mu = <<>> /\ devs = <<>> /\ iters = <<>> /\ eres = <<>>
    /\ lamda = <<>> /\ sigma = <<>> /\ power4 = <<>>

KIdle ==
    /\ kpc = "off" /\ gtab = <<>> /\ init_fit_method = <<>>
    /\ init_args = <<>> /\ init_kwargs = <<>> /\ self = <<>>
    /\ fit_data = <<>> /\ fit_mask = <<>> /\ invoked = <<>>
    /\ exc = <<>> /\ fit_out = <<>>

BIdle ==
    /\ bpc = "off" /\ flag_defs = <<>> /\ compiler = <<>> /\ extensions = <<>>
    /\ checked = <<>> /\ def_vars = <<>> /\ good_compile_flags = <<>>
    /\ good_link_flags = <<>> /\ config_pxi = <<>> /\ parent_built = <<>>

InitTensor == TInit /\ MIdle /\ CIdle /\ FIdle /\ DIdle /\ EIdle /\ KIdle /\ BIdle

SpecTensor == InitTensor /\ [][TNext]_vars

InitMetrics == MInit /\ TIdle /\ CIdle /\ FIdle /\ DIdle /\ EIdle /\ KIdle /\ BIdle

SpecMetrics == InitMetrics /\ [][MNext]_vars

InitCoef == CInit /\ TIdle /\ MIdle /\ FIdle /\ DIdle /\ EIdle /\ KIdle /\ BIdle

SpecCoef == InitCoef /\ [][CNext]_vars

InitFit == FInit /\ TIdle /\ MIdle /\ CIdle /\ DIdle /\ EIdle /\ KIdle /\ BIdle

SpecFit == InitFit /\ [][FNext]_vars

InitDesign == DInit /\ TIdle /\ MIdle /\ CIdle /\ FIdle /\ EIdle /\ KIdle /\ BIdle

SpecDesign == InitDesign /\ [][DNext]_vars

InitElliptic == EInit /\ TIdle /\ MIdle /\ CIdle /\ FIdle /\ DIdle /\ KIdle /\ BIdle

SpecElliptic == InitElliptic /\ [][ENext]_vars

InitModel == KInit /\ TIdle /\ MIdle /\ CIdle /\ FIdle /\ DIdle /\ EIdle /\ BIdle

SpecModel == InitModel /\ [][KNext]_vars

InitBuild == BInit /\ TIdle /\ MIdle /\ CIdle /\ FIdle /\ DIdle /\ EIdle /\ KIdle

SpecBuild == InitBuild /\ [][BNext]_vars

(***************************************************************************)
(* Reference notions the statements below are written with                 *)
(***************************************************************************)
\* how often index x occurs in the quadruple q
Count(q, x) == Cardinality({n \in 1..4 : q[n] = x})

\* q and r are permutations of each other
SamePerm(q, r) == \A x \in XYZ : Count(q, x) = Count(r, x)

\* the position (0..14, canonical order) of the symmetry class of q
ClassOf(q) == CHOOSE n \in 0..14 : SamePerm(q, default_inds[n + 1])

\* the fully symmetric dense tensor with independent elements k
SymW(k) == [q \in Quads |-> k[ClassOf(q)]]

\* sum over p,q,r,s of B[i][p] B[j][q] B[k][r] B[l][s] W[p][q][r][s]
RotSum(W, i, j, k, l, B) ==
    Sum3(LAMBDA p : Sum3(LAMBDA q : Sum3(LAMBDA r : Sum3(LAMBDA s :
        B[i][p] * B[j][q] * B[k][r] * B[l][s] * W[<<p, q, r, s>>]))))

Transpose(B) == [r \in XYZ |-> [c \in XYZ |-> B[c][r]]]

\* element (i,j,k,l) of the kurtosis tensor of the parameters p, expressed in
\* the frame of the eigenvectors (the columns of the eigenvector matrix)
RotatedW(p, i, j, k, l) ==
    RotSum(SymW(DKIFit_Wrotat(p)), i, j, k, l, Transpose(DKIFit_evecs(p)))

\* the six-term mean kurtosis of the parameters p
MK_SixTerms(p) ==
    LET l1 == p[0]
        l2 == p[1]
        l3 == p[2]
    IN  LAdd(LAdd(LAdd(LScale(RotatedW(p, 0, 0, 0, 0), F1m(l1, l2, l3)),
                       LScale(RotatedW(p, 1, 1, 1, 1), F1m(l2, l1, l3))),
                  LAdd(LScale(RotatedW(p, 2, 2, 2, 2), F1m(l3, l2, l1)),
                       LScale(RotatedW(p, 1, 1, 2, 2), F2m(l1, l2, l3)))),
             LAdd(LScale(RotatedW(p, 0, 0, 2, 2), F2m(l2, l1, l3)),
                  LScale(RotatedW(p, 0, 0, 1, 1), F2m(l3, l2, l1))))

(***************************************************************************)
(* C1: after Wcons(k), every entry W[i][j][k][l] holds the component of k  *)
(* whose symmetry class is the multiset of its indices, so reading one     *)
(* representative per class gives back the 15 values.                      *)
(* The code binds every key to k_elements[0]: the statement fails.         *)
(***************************************************************************)
C1_WconsFillsByClass ==
    tpc \in {"Wcons", "element"} =>
        /\ \A q \in Quads : W4D[q] = kt[ClassOf(q)]
        /\ \A n \in 0..14 : W4D[default_inds[n + 1]] = kt[n]

(***************************************************************************)
(* C2: _Wrotate_element returns the scalar sum over p,q,r,s of             *)
(* Basis[i][p]*Basis[j][q]*Basis[k][r]*Basis[l][s]*W4D[p][q][r][s].        *)
(* The code returns an array built from two basis factors and a basis row. *)
(***************************************************************************)
C2_ElementIsRotationSum ==
    tpc = "element" =>
        /\ rot.kind = "scalar"
        /\ rot.val = RotSum(W4D, tcall[1], tcall[2], tcall[3], tcall[4], Basis)

(***************************************************************************)
(* C3: Wrotate without an index set completes without error and returns    *)
(* the 15 components in canonical order; with the identity basis they are  *)
(* the 15 input components.  The code raises at range(inds).               *)
(***************************************************************************)
C3_WrotateDefaultCompletes ==
    (tpc = "Wrotate" /\ tcall = None) =>
        /\ rot.status = "ok"
        /\ DOMAIN rot.val = 0..14
        /\ Basis = Identity => \A n \in 0..14 : rot.val[n] = kt[n]

(***************************************************************************)
(* C4: mean_kurtosis returns the sum of all six terms F1*Wxxxx + F1*Wyyyy  *)
(* + F1*Wzzzz + F2*Wyyzz + F2*Wxxzz + F2*Wxxyy over the rotated elements,  *)
(* and DKIFit.mk yields this value.  The code raises before it returns.    *)
(***************************************************************************)
C4_MeanKurtosisSixTerms ==
    mpc \in {"mean_kurtosis", "mk"} =>
        /\ metric.status = "ok"
        /\ metric.val = MK_SixTerms(model_params)

(***************************************************************************)
(* C5: radial_kurtosis returns G1(l1,l2,l3)*Wyyyy + G1(l1,l3,l2)*Wzzzz +   *)
(* G2(l1,l2,l3)*Wyyzz with Wyyyy, Wzzzz, Wyyzz the entries 1, 2 and 5 of   *)
(* the rotated vector.  The code reads entry 1 for Wzzzz.                  *)
(***************************************************************************)
C5_RadialUsesZzzz ==
    mpc = "radial_kurtosis" =>
        /\ metric.status = "ok"
        /\ metric.val =
              LAdd(LAdd(LScale(margs[1], G1m(model_params[0], model_params[1], model_params[2])),
                        LScale(margs[2], G1m(model_params[0], model_params[2], model_params[1]))),
                   LScale(margs[5], G2m(model_params[0], model_params[1], model_params[2])))

(***************************************************************************)
(* C6: AK = (l1+l2+l3)^2 / (9*l1^2) * W1111 with W1111 the xxxx element in *)
(* the eigenvector frame, and DKIFit.ak passes that rotated element.  The  *)
(* code passes the un-rotated fitted elements model_params[12:].           *)
(***************************************************************************)
C6_AkUsesRotatedElement ==
    mpc = "ak" =>
        /\ metric.status = "ok"
        /\ metric.val.n * (9 * model_params[0] * model_params[0]) =
             metric.val.d * ((model_params[0] + model_params[1] + model_params[2])
                             * (model_params[0] + model_params[1] + model_params[2])
                             * RotatedW(model_params, 0, 0, 0, 0))

(***************************************************************************)
(* C7: for strictly positive eigenvalues of which at least two are equal,  *)
(* A1111, A2233, C2222 and C2233 never evaluate an expression whose        *)
(* denominator (a-b), (a-c) or (b-c) is zero.  A1111's first branch tests  *)
(* a != b and b != c only, and divides by (a-c) when a = c.                *)
(***************************************************************************)
C7_NoZeroDenominator ==
    cpc # "init" =>
        \A e \in Elems :
            (/\ Pos(ca, cb, cc, e)
             /\ (ca[e] = cb[e] \/ ca[e] = cc[e] \/ cb[e] = cc[e]))
            => 0 \notin cres.den[e]

(***************************************************************************)
(* C8: ols_fit_dki and wls_fit_dki raise an error when min_signal <= 0,    *)
(* before any voxel is fitted and before any output is produced; with      *)
(* min_signal > 0 the error is never raised.                               *)
(***************************************************************************)
C8_RaisesIffNotPositive ==
    [][/\ (fpc = "start" /\ min_signal <= 0)
            => (/\ fpc' = "raised"
                /\ dki_params' = <<>> /\ locals' = <<>> /\ inv_design' = <<>>)
       /\ min_signal > 0 => fpc' # "raised"]_vars

C8_Witness ==
    /\ fpc = "raised" /\ min_signal = 0
    /\ dki_params = <<>> /\ locals = <<>>

(***************************************************************************)
(* C9: in _ols_iter and _wls_iter every sample passed to the logarithm is  *)
(* >= min_signal > 0: a sample below min_signal is replaced by min_signal, *)
(* a sample at or above it is left as it is, and the logarithm is taken of *)
(* these values.                                                           *)
(***************************************************************************)
C9_LogArgumentClamped ==
    (fpc \in {"loop", "done"} /\ vox > 0) =>
        \A n \in DOMAIN data_flat[vox - 1] :
            /\ locals.sig[n] >= min_signal
            /\ locals.sig[n] > 0
            /\ locals.sig[n] = IF data_flat[vox - 1][n] < min_signal
                                 THEN min_signal ELSE data_flat[vox - 1][n]
            /\ locals.finite
            /\ locals.log_s[n] = Log(locals.sig[n])

C9_Witness ==
    /\ fpc = "done" /\ vox > 0 /\ fit_method = "wls"
    /\ \E n \in DOMAIN data_flat[vox - 1] :
           data_flat[vox - 1][n] = 0 /\ locals.sig[n] = min_signal
    /\ \E n \in DOMAIN data_flat[vox - 1] :
           data_flat[vox - 1][n] > min_signal
               /\ locals.sig[n] = data_flat[vox - 1][n]

(***************************************************************************)
(* The layout of one output row.  vec(row, j) is the triple of entries     *)
(* read as the eigenvector of eigenvalue j.  The layout holds when the row *)
(* has 27 entries, each such triple is a unit eigenvector of the fitted    *)
(* tensor, entry j is its eigenvalue (raised to the floor when below it),  *)
(* and entries 12..26 are the 15 kurtosis values.                          *)
(***************************************************************************)
TimesVec(T, v) == [r \in XYZ |-> Sum3(LAMBDA c : T[r][c] * v[c])]

Rayleigh(T, v) == Sum3(LAMBDA r : v[r] * TimesVec(T, v)[r])

Clipped(x, fl) == IF RLess(RInt(x), fl) THEN fl ELSE RInt(x)

LayoutHolds(vec(_, _)) ==
    LET row == locals.dki_params
        T == locals.tensor
    IN  /\ DOMAIN row = 0..26
        /\ \A j \in XYZ :
               LET v == vec(row, j)
                   lam == Rayleigh(T, v)
               IN  /\ Sum3(LAMBDA r : v[r] * v[r]) = 1
                   /\ \A r \in XYZ : TimesVec(T, v)[r] = lam * v[r]
                   /\ row[j] = Clipped(lam, min_diffusivity)
        /\ \A k \in 0..14 :
               row[12 + k] = [num |-> locals.result[6 + k],
                              den |-> Square(Mean3(locals.evals))]

(***************************************************************************)
(* C10 as stated: the row has 27 entries [eval1, eval2, eval3, evec1,      *)
(* evec2, evec3, 15 kurtosis values], entries 3-5, 6-8 and 9-11 being the  *)
(* coordinates of the eigenvector of eval1, eval2 and eval3.               *)
(***************************************************************************)
C10_TriplesAreEigenvectors ==
    (fpc \in {"loop", "done"} /\ vox > 0) =>
        LayoutHolds(LAMBDA row, j : [c \in XYZ |-> row[3 + 3 * j + c]])

(***************************************************************************)
(* C10, amended: the row has 27 entries [eval1, eval2, eval3, the three    *)
(* ROWS of the eigenvector matrix, 15 kurtosis values]: entry 3 + 3*r + j  *)
(* is coordinate r of the eigenvector of eigenvalue j, so entries 3-5 are  *)
(* the first coordinates of the three eigenvectors, 6-8 the second, 9-11   *)
(* the third.                                                              *)
(***************************************************************************)
C10_RowsOfEigenvectorMatrix ==
    (fpc \in {"loop", "done"} /\ vox > 0) =>
        LayoutHolds(LAMBDA row, j : [r \in XYZ |-> row[3 + 3 * r + j]])

C10_Witness ==
    /\ fpc = "done" /\ vox > 0
    /\ locals.evecs[0] = Vec3(0, 1, 0)
    /\ locals.evecs[1] = Vec3(0, 0, 1)
    /\ locals.evecs[2] = Vec3(1, 0, 0)
    /\ locals.dki_params[3] = 0 /\ locals.dki_params[4] = 1
    /\ RLess(locals.evals[1], locals.evals[0])
    /\ RLess(locals.evals[2], locals.evals[1])

(***************************************************************************)
(* C11: the eigenvalues the fit's decomposition produces are in            *)
(* non-increasing order, each is >= the floor min_diffusivity =            *)
(* 1e-6 / (-min(design_matrix)), an eigenvalue of the tensor below the     *)
(* floor is raised to it, the order is non-increasing after the clipping,  *)
(* and the eigenvector columns are permuted as the eigenvalues are: column *)
(* j is an eigenvector of the j-th largest eigenvalue of the tensor.       *)
(* A design matrix whose minimum is 0 gives the floor -inf.                *)
(***************************************************************************)
FloorOfDesign ==
    LET mn == MatMin(design_matrix)
    IN  IF mn < 0 THEN [n |-> 1, d |-> TolDen * (-mn)]
        ELSE [n |-> -1, d |-> 0]

C11_SortedClippedEigenvalues ==
    (fpc \in {"loop", "done"} /\ vox > 0) =>
        /\ min_diffusivity = FloorOfDesign
        /\ \A j \in XYZ : ~RLess(locals.evals[j], min_diffusivity)
        /\ \A j \in 0..1 : ~RLess(locals.evals[j], locals.evals[j + 1])
        /\ \E q \in Perms3 :
              /\ \A j \in 0..1 :
                     locals.tensor[q[j]][q[j]] >= locals.tensor[q[j + 1]][q[j + 1]]
              /\ \A j \in XYZ :
                     /\ locals.evals[j] =
                            Clipped(locals.tensor[q[j]][q[j]], min_diffusivity)
                     /\ \A r \in XYZ :
                            locals.evecs[r][j] = IF r = q[j] THEN 1 ELSE 0

C11_Witness ==
    /\ fpc = "done" /\ vox > 0
    /\ locals.tensor[0][0] < 0
    /\ locals.tensor[0][0] < locals.tensor[1][1]
    /\ locals.tensor[1][1] < locals.tensor[2][2]
    /\ locals.evals[2] = min_diffusivity
    /\ locals.evals[2] = [n |-> 1, d |-> TolDen]
    /\ locals.evecs[0] = Vec3(0, 0, 1)
    /\ locals.evecs[2] = Vec3(1, 0, 0)

(***************************************************************************)
(* C12: in the OLS and the WLS fit the 15 kurtosis values written to the   *)
(* output are the components 6..20 of the solution (component 21, the      *)
(* log S0 term, is not among them), each divided by the square of the mean *)
(* of the three output eigenvalues (sorted, clipped).                      *)
(***************************************************************************)
C12_KurtosisOverMeanSquared ==
    (fpc \in {"loop", "done"} /\ vox > 0) =>
        LET row == dki_params[vox - 1]
            total == RAdd(RAdd(row[0], row[1]), row[2])
        IN  \A k \in 0..14 :
                /\ row[12 + k].num = locals.result[6 + k]
                /\ Len(row[12 + k].den) = 2
                /\ \A i \in 1..2 :
                       LET m == row[12 + k].den[i]
                       IN  RAdd(RAdd(m, m), m) = total

C12_Witness ==
    /\ fpc = "done" /\ vox > 0
    /\ locals.result[6] = -2
    /\ dki_params[vox - 1][12].num = -2
    /\ dki_params[vox - 1][2] = min_diffusivity
    /\ dki_params[vox - 1][0] = RInt(2)
    /\ dki_params[vox - 1][1] = RInt(1)
    /\ dki_params[vox - 1][12].den[1] = [n |-> 3000001, d |-> 3000000]

(***************************************************************************)
(* C13: for every measurement (b, n), every symmetric diffusion tensor D   *)
(* (its 6 components matched to columns 0-5) and every fully symmetric     *)
(* kurtosis tensor W (its 15 canonical components matched to columns       *)
(* 6-20), the row of dki_design_matrix dotted with (D, W, logS0) equals    *)
(*   -b * sum_ij n_i n_j D_ij                                              *)
(*      + (b^2/6) * sum_ijkl n_i n_j n_k n_l W_ijkl + logS0.               *)
(* Both sides are linear in (D, W, logS0): the coefficient vectors are the *)
(* 22 unit vectors and two vectors without zero entry.  Both sides are     *)
(* compared multiplied by 6.                                               *)
(***************************************************************************)
CoefInputs ==
    {[j \in Coefs |-> IF j = i THEN 1 ELSE 0] : i \in Coefs}
        \cup {[j \in Coefs |-> j + 1], [j \in Coefs |-> 22 - 3 * j]}

SixDot(row, p) ==
    SumFn([j \in Coefs |-> row[j].n * (6 \div row[j].d) * p[j]], 21)

SixSignal(b, n, p) ==
    LET D == from_lower_triangular([k \in 0..5 |-> p[k]])
        W == SymW([k \in 0..14 |-> p[6 + k]])
    IN  (-6) * b * Sum3(LAMBDA i : Sum3(LAMBDA j : n[i] * n[j] * D[i][j]))
        + b * b * Sum3(LAMBDA i : Sum3(LAMBDA j : Sum3(LAMBDA k : Sum3(LAMBDA l :
              n[i] * n[j] * n[k] * n[l] * W[<<i, j, k, l>>]))))
        + 6 * p[21]

C13_RowIsSignalModel ==
    dpc = "built" =>
        \A m \in DOMAIN B_design :
            /\ DOMAIN B_design[m] = Coefs
            /\ \A j \in Coefs : 6 % B_design[m][j].d = 0
            /\ \A p \in CoefInputs :
                   SixDot(B_design[m], p) = SixSignal(bvals[m], bvecs[m], p)

C13_Witness ==
    /\ dpc = "built"
    /\ bvals[0] = MaxB /\ bvecs[0] = Vec3(1, 1, -1)
    /\ B_design[0][1] = RInt(-2 * MaxB)
    /\ B_design[0][9] = Rat(4 * MaxB * MaxB, 6)
    /\ B_design[0][15] = RInt(MaxB * MaxB)
    /\ B_design[0][18] = RInt(-2 * MaxB * MaxB)

(***************************************************************************)
(* C14: each row of dki_design_matrix has column 21 equal to 1, and each   *)
(* row whose b-value is 0 has columns 0..20 all zero whatever its          *)
(* direction is.                                                           *)
(***************************************************************************)
C14_ConstantColumnAndZeroRows ==
    dpc = "built" =>
        \A m \in DOMAIN B_design :
            /\ B_design[m][21] = RInt(1)
            /\ bvals[m] = 0 => \A j \in 0..20 : B_design[m][j] = RInt(0)

C14_Witness ==
    /\ dpc = "built"
    /\ bvals[0] = 0 /\ bvecs[0] = Vec3(1, 1, -1)
    /\ B_design[0][0] = RInt(0) /\ B_design[0][21] = RInt(1)
    /\ bvals[1] > 0 /\ B_design[1][0] # RInt(0)

(***************************************************************************)
(* C15: rfpython fails with a domain error when an argument is negative or *)
(* all three are zero, rdpython when an argument is negative or more than  *)
(* one is zero; neither returns a value (NaN and Inf included) for such    *)
(* arguments.  The code tests nothing and returns nan.                     *)
(***************************************************************************)
NegativeArg == ex.m < 0 \/ ey.m < 0 \/ ez.m < 0

ZeroArgs == Cardinality({i \in 1..3 : <<ex, ey, ez>>[i].m = 0})

C15_DomainErrors ==
    (/\ epc = "done"
     /\ \/ NegativeArg
        \/ (efun = "rf" /\ ZeroArgs = 3)
        \/ (efun = "rd" /\ ZeroArgs > 1))
    => eres.status = "DomainError"

(***************************************************************************)
(* C16: the duplication loops of rfpython and rdpython terminate for every *)
(* input, after no more than 100 turns.  The loops have no cap, and for    *)
(* subnormal arguments the rounding keeps the deviation above the          *)
(* tolerance for ever: from (2, 1, 1) multiples of 2^-1074 a duplication   *)
(* gives (2, 1, 1) again.                                                  *)
(***************************************************************************)
C16_AtMostHundredTurns ==
    epc \in {"loop", "done"} => iters <= 100

(***************************************************************************)
(* C17: for equal arguments x = y = z = c > 0 rfpython performs no         *)
(* duplication (the deviations are 0) and returns exactly 1/sqrt(c).  For  *)
(* c in the top band the sum x + y + z overflows, mu is inf, the           *)
(* deviations and the value returned are nan.                              *)
(***************************************************************************)
C17_EqualArguments ==
    (/\ epc = "done" /\ efun = "rf"
     /\ ex.m > 0 /\ ey = ex /\ ez = ex)
    => /\ iters = 0
       /\ eres.k = "num"
       /\ eres.mu = ex
       /\ \A i \in 1..3 : eres.devs[i].k = "fin" /\ eres.devs[i].n = 0

(***************************************************************************)
(* C18: for a noiseless single-voxel signal whose logarithm lies in the    *)
(* column space of a design matrix of full column rank (generated from a   *)
(* known diffusion tensor and known kurtosis elements, all samples >=      *)
(* min_signal), ols_fit_dki returns the generating eigenvalues and the     *)
(* generating kurtosis elements divided by the squared mean diffusivity,   *)
(* and wls_fit_dki returns the same parameters as ols_fit_dki.             *)
(***************************************************************************)
FullColumnRank(A) == \A j \in Coefs : \E n \in DOMAIN A : A[n][j] # 0

\* the generating coefficients: a diagonal diffusion tensor with positive
\* eigenvalues, kurtosis elements, log S0
GenInputs == {[j \in Coefs |-> SignOf(j) * q[j]] : q \in ExponentInputs}

\* the noiseless signal exp(A p)
SignalOf(A, p) == [n \in DOMAIN A |-> Exp(Dot(A, p)[n])]

Recovered(row, p) ==
    /\ \E q \in Perms3 :
           LET D == <<p[0], p[2], p[5]>>
           IN  /\ \A j \in 0..1 : D[q[j] + 1] >= D[q[j + 1] + 1]
               /\ \A j \in XYZ : row[j] = RInt(D[q[j] + 1])
    /\ \A k \in 0..14 :
           row[12 + k] = [num |-> p[6 + k],
                          den |-> Square(Rat(p[0] + p[2] + p[5], 3))]

C18_NoiselessRecovery ==
    (/\ fpc \in {"loop", "done"} /\ vox > 0
     /\ FullColumnRank(design_matrix)
     /\ \A n \in DOMAIN data_flat[vox - 1] : data_flat[vox - 1][n] >= min_signal)
    => \A p \in GenInputs :
           data_flat[vox - 1] = SignalOf(design_matrix, p)
           => /\ Recovered(dki_params[vox - 1], p)
              /\ dki_params[vox - 1] =
                     ols_iter(pinv(design_matrix), data_flat[vox - 1],
                              min_signal, floor_of(design_matrix)).dki_params
              /\ dki_params[vox - 1] =
                     wls_iter(design_matrix, pinv(design_matrix),
                              data_flat[vox - 1], min_signal,
                              floor_of(design_matrix)).dki_params

C18_Witness ==
    /\ fpc = "done" /\ vox = 1 /\ fit_method = "wls" /\ min_signal = 1
    /\ FullColumnRank(design_matrix)
    /\ \E p \in GenInputs :
           /\ data_flat[0] = SignalOf(design_matrix, p)
           /\ p[0] = 1 /\ p[2] = 2 /\ p[5] = 1 /\ p[13] = -1 /\ p[14] = 2
    /\ dki_params[0][0] = RInt(2) /\ dki_params[0][2] = RInt(1)
    /\ dki_params[0][12 + 7].num = -1 /\ dki_params[0][12 + 8].num = 2

(***************************************************************************)
(* C19: in ols_fit_dki and wls_fit_dki the output row of voxel v depends   *)
(* only on the design matrix, min_signal and the signal of voxel v: it is  *)
(* the row the fit of that voxel alone gives, whatever the other voxels    *)
(* hold and whatever was fitted before; a turn of the loop leaves the rows *)
(* written before, the design matrix, its pseudo-inverse and the data as   *)
(* they are.                                                               *)
(***************************************************************************)
RowAlone(method, A, m, sig) ==
    IF method = "ols"
      THEN ols_iter(pinv(A), sig, m, floor_of(A)).dki_params
      ELSE wls_iter(A, pinv(A), sig, m, floor_of(A)).dki_params

C19_VoxelsIndependent ==
    [][/\ design_matrix' = design_matrix
       /\ data_flat' = data_flat
       /\ fpc = "loop" =>
            /\ inv_design' = inv_design
            /\ min_diffusivity' = min_diffusivity
            /\ \A v \in DOMAIN dki_params : dki_params'[v] = dki_params[v]
            /\ \A v \in DOMAIN dki_params' :
                   dki_params'[v] = RowAlone(fit_method, design_matrix,
                                             min_signal, data_flat[v])]_vars

C19_Witness ==
    /\ fpc = "done" /\ vox = 2
    /\ data_flat[0] # data_flat[1]
    /\ dki_params[0][0] = RInt(2) /\ dki_params[0][5] = 1
    /\ dki_params[1][0] = RInt(2) /\ dki_params[1][5] = 0
    /\ dki_params[1] = RowAlone(fit_method, design_matrix, min_signal, data_flat[1])

(***************************************************************************)
(* C20: a DKIModel constructed with a callable fit_method keeps that       *)
(* callable as its fit method, and a fit that follows completes having     *)
(* called it with the design matrix, the data and the args and kwargs      *)
(* given at construction.                                                  *)
(***************************************************************************)
C20_CallableIsInvoked ==
    (kpc # "off" /\ callable(init_fit_method)) =>
        /\ kpc = "built" =>
              /\ "fit_method" \in DOMAIN self
              /\ self["fit_method"] = init_fit_method
        /\ kpc \in {"fitted", "raised"} =>
              /\ kpc = "fitted"
              /\ invoked = [f |-> init_fit_method,
                            design_matrix |-> dki_design_matrix(gtab.bvals, gtab.bvecs),
                            data |-> fit_data,
                            args |-> init_args,
                            kwargs |-> init_kwargs]

(***************************************************************************)
(* C21: a DKIModel constructed with a fit_method that is not callable:     *)
(* 'OLS_DKI' and 'ULLS_DKI' select ols_fit_dki, 'WLS_DKI' and 'UWLLS_DKI'  *)
(* select wls_fit_dki, and a name that is not a key of common_fit_methods  *)
(* raises ValueError and leaves no model object.                           *)
(***************************************************************************)
C21_NamesSelectFits ==
    (kpc \notin {"off", "new"} /\ ~callable(init_fit_method)) =>
        LET name == init_fit_method.val
            keys == {"WLS", "OLS", "UWLLS", "ULLS",
                     "WLS_DKI", "OLS_DKI", "UWLLS_DKI", "ULLS_DKI"}
        IN  /\ name \in {"OLS_DKI", "ULLS_DKI"} =>
                  /\ kpc \in {"built", "fitted"}
                  /\ self["fit_method"] = Function("ols_fit_dki")
            /\ name \in {"WLS_DKI", "UWLLS_DKI"} =>
                  /\ kpc \in {"built", "fitted"}
                  /\ self["fit_method"] = Function("wls_fit_dki")
            /\ name \notin keys =>
                  /\ kpc = "raised" /\ exc = "ValueError"
                  /\ self = <<>> /\ invoked = <<>> /\ fit_out = <<>>
            /\ name \in keys => exc = "none"

C21_Witness ==
    /\ kpc = "fitted"
    /\ init_fit_method = Str("UWLLS_DKI")
    /\ invoked.f = Function("wls_fit_dki")

(***************************************************************************)
(* C22: DKIModel.fit with a mask hands the fit method the voxels where the *)
(* mask is true and no others, in their order; the parameters returned     *)
(* have one row of 27 values per voxel of the data; the row of a masked    *)
(* voxel is the 27-vector fitted to that voxel's signal and all 27 values  *)
(* of an unmasked voxel are zero.  Without a mask every voxel is handed    *)
(* over and every row is the fitted one.                                   *)
(***************************************************************************)
FittedRow(f, sig) == [k \in 0..26 |-> [f |-> f.val, sig |-> sig, k |-> k]]

IsZeroRow(row) == DOMAIN row = 0..26 /\ \A k \in 0..26 : row[k].f = "zeros"

C22_MaskedFit ==
    kpc = "fitted" =>
        LET out  == fit_out.model_params
            used == IF fit_mask = None THEN DOMAIN fit_data
                    ELSE {v \in DOMAIN fit_data : fit_mask.val[v]}
        IN  /\ DOMAIN out = DOMAIN fit_data
            /\ DOMAIN invoked.data = 0..(Cardinality(used) - 1)
            /\ \A v \in used :
                  /\ invoked.data[Cardinality({u \in used : u < v})] = fit_data[v]
                  /\ out[v] = FittedRow(invoked.f, fit_data[v])
            /\ \A v \in DOMAIN fit_data \ used : IsZeroRow(out[v])

C22_Witness ==
    /\ kpc = "fitted"
    /\ fit_mask # None
    /\ fit_mask.val = (0 :> FALSE) @@ (1 :> TRUE)
    /\ fit_data[0] # fit_data[1]
    /\ invoked.data = (0 :> fit_data[1])
    /\ IsZeroRow(fit_out.model_params[0])
    /\ fit_out.model_params[1][26].sig = fit_data[1]

(***************************************************************************)
(* C23: _roll_Wrotat raises ValueError exactly when the last axis of the   *)
(* array does not have length 6; an array of shape (..., 6) is returned    *)
(* with the requested axis moved to the front, every value kept.           *)
(***************************************************************************)
C23_SixValuesAccepted ==
    mpc = "_roll_Wrotat" =>
        LET W == margs.Wrotat
            n == Len(W.shape)
            ax == IF margs.axis < 0 THEN margs.axis + n ELSE margs.axis
        IN  /\ metric.status = "ValueError" <=> W.shape[n] # 6
            /\ W.shape[n] = 6 =>
                  /\ metric.status = "ok"
                  /\ metric.val.shape[1] = W.shape[ax + 1]
                  /\ \A idx \in Indices(W.shape) :
                        \E jdx \in Indices(metric.val.shape) :
                            /\ jdx[1] = idx[ax + 1]
                            /\ metric.val.at[jdx] = W.at[idx]

(***************************************************************************)
(* C24: the tensor Wcons builds has all 81 entries assigned from the       *)
(* lookup table, and the same value at an index quadruple and at every     *)
(* permutation of it.                                                      *)
(***************************************************************************)
C24_WconsSymmetric ==
    tpc = "Wcons" =>
        /\ DOMAIN W4D = Quads
        /\ Cardinality(DOMAIN W4D) = 81
        /\ \A q \in Quads : \E key \in DOMAIN indep_ele(kt) :
               W4D[q] = indep_ele(kt)[key]
        /\ \A q \in Quads, r \in Quads : SamePerm(q, r) => W4D[q] = W4D[r]

C24_Witness ==
    /\ tpc = "Wcons"
    /\ kt = [n \in 0..14 |-> n + 1]
    /\ W4D[<<0, 1, 2, 2>>] = W4D[<<2, 1, 0, 2>>]
    /\ W4D[<<2, 2, 2, 2>>] > 0

(***************************************************************************)
(* C26: the key (i+1)*(j+1)*(k+1)*(l+1) of Wcons is the same for two index *)
(* quadruples over {0,1,2} exactly when one is a permutation of the other; *)
(* the keys that occur are exactly the 15 keys of the lookup table         *)
(* {1,16,81,2,3,8,24,27,54,4,9,36,6,12,18}, so the lookup finds every one  *)
(* of the 81 quadruples.                                                   *)
(***************************************************************************)
C26_KeyNamesTheClass ==
    tpc = "Wcons" =>
        /\ \A q \in Quads, r \in Quads :
               WconsKey(q) = WconsKey(r) <=> SamePerm(q, r)
        /\ {WconsKey(q) : q \in Quads}
               = {1, 16, 81, 2, 3, 8, 24, 27, 54, 4, 9, 36, 6, 12, 18}
        /\ DOMAIN indep_ele(kt) = {WconsKey(q) : q \in Quads}
        /\ \A q \in DOMAIN W4D : WconsKey(q) \in DOMAIN indep_ele(kt)

C26_Witness ==
    /\ tpc = "Wcons"
    /\ kt[14] = 1
    /\ WconsKey(<<2, 1, 0, 1>>) = 12
    /\ WconsKey(<<1, 1, 0, 2>>) = 12
    /\ W4D[<<2, 1, 0, 1>>] = indep_ele(kt)[12]

(***************************************************************************)
(* C25: in a turn of rdpython's loop lamda is computed from the arguments  *)
(* as they are before the turn, sigma grows by power4/(sqrt(zn)*(zn +      *)
(* lamda)) with zn and power4 as they are before the turn, then power4 is  *)
(* quartered and each argument becomes (argument + lamda)/4; after n turns *)
(* power4 is 4^(-n); rfpython updates the arguments in the same way and    *)
(* keeps no sum.                                                           *)
(* The order holds; power4 is 4^(-n) for the first 537 turns only, after   *)
(* which the double underflows to 0.0 in the runs that never leave the     *)
(* loop.                                                                   *)
(***************************************************************************)
TurnOrder ==
    (epc = "loop" /\ iters' = iters + 1) =>
        LET l == lamda_of(xn, yn, zn)
        IN  /\ lamda' = l
            /\ xn' = quarter_sum(xn, l)
            /\ yn' = quarter_sum(yn, l)
            /\ zn' = quarter_sum(zn, l)
            /\ efun = "rd" =>
                  /\ sigma'.last = [power4 |-> power4, zn |-> zn, lamda |-> l]
                  /\ sigma'.k # "zero"
                  /\ power4.k = "pow4" =>
                        power4' \in {[k |-> "pow4", e |-> power4.e + 1],
                                     [k |-> "zero", e |-> 0]}
            /\ efun = "rf" => sigma' = <<>> /\ power4' = <<>>

Power4IsFourToMinusTurns ==
    (efun = "rd" /\ epc \in {"loop", "done"}) =>
        power4 = [k |-> "pow4", e |-> iters]

C25_TurnOfTheLoop == [][TurnOrder]_vars /\ []Power4IsFourToMinusTurns

(***************************************************************************)
(* C27: for strictly positive arguments A1111 returns its default 1/5 only *)
(* when a = b = c: for every other positive triple, b = c # a included, a  *)
(* formula branch overwrites the default; likewise A2233 returns its       *)
(* default 1/15 only when a = b = c.                                       *)
(* A1111 has no branch for b = c # a and returns 1/5 there.                *)
(***************************************************************************)
C27_DefaultOnlyWhenIsotropic ==
    \A e \in Elems :
        (cpc \in {"A1111", "A2233"} /\ ca[e] > 0 /\ cb[e] > 0 /\ cc[e] > 0) =>
            (cres.val[e].f \in {"1/5", "1/15"}
                <=> (ca[e] = cb[e] /\ cb[e] = cc[e]))

(***************************************************************************)
(* C28: A1111, A2233, C2222 and C2233 return exactly 0 for every element   *)
(* with an argument <= 0, whatever an earlier branch computed for it or    *)
(* for the other elements: the zeroing step comes last; an element whose   *)
(* arguments are all > 0 is not zeroed by that step.                       *)
(***************************************************************************)
C28_ZeroingComesLast ==
    cpc # "init" =>
        \A e \in Elems :
            /\ (ca[e] <= 0 \/ cb[e] <= 0 \/ cc[e] <= 0) => cres.val[e] = CZero
            /\ (ca[e] > 0 /\ cb[e] > 0 /\ cc[e] > 0) => cres.val[e].f # "0"

C28_Witness ==
    /\ cpc = "A1111"
    /\ ca[0] = 2 /\ cb[0] = 1 /\ cc[0] = 0
    /\ cres.val[0] = CZero
    /\ ca[1] = 3 /\ cb[1] = 2 /\ cc[1] = 1
    /\ cres.val[1].f = "A1111_general"

(***************************************************************************)
(* C29: Checker.build_extensions appends the flags of an entry of          *)
(* flag_defs to extra_compile_args and extra_link_args of every extension  *)
(* exactly when both the compile and the link check of the entry           *)
(* succeeded, the entries in their order; for each entry whose defvar is   *)
(* not None build/config.pxi gets a line 'DEF defvar = True' or            *)
(* 'DEF defvar = False' telling that outcome, and no line for an entry     *)
(* whose defvar is None; the parent's build_extensions is called after     *)
(* that, in every run.                                                     *)
(***************************************************************************)
BothSucceeded(entry) ==
    compiler.compile[entry.code] = "ok" /\ compiler.link[entry.code] = "ok"

RECURSIVE FlagsOfGood(_, _)
FlagsOfGood(n, field) ==
    IF n = 0 THEN <<>>
    ELSE FlagsOfGood(n - 1, field)
         \o (IF BothSucceeded(flag_defs[n]) THEN flag_defs[n][field] ELSE <<>>)

RECURSIVE DefLines(_)
DefLines(n) ==
    IF n = 0 THEN <<>>
    ELSE IF flag_defs[n].def_var = None THEN DefLines(n - 1)
    ELSE Append(DefLines(n - 1),
                <<"DEF", flag_defs[n].def_var.val, "=",
                  IF BothSucceeded(flag_defs[n]) THEN "True" ELSE "False">>)

BuildStep ==
    /\ (bpc = "loop" /\ bpc' = "loop") =>
          /\ extensions' = extensions
          /\ config_pxi' = <<>> /\ parent_built' = <<>>
    /\ (bpc = "loop" /\ bpc' = "done") =>
          LET N == Len(flag_defs)
          IN  /\ checked = N
              /\ DOMAIN extensions' = DOMAIN extensions
              /\ \A n \in DOMAIN extensions :
                    /\ extensions'[n].extra_compile_args
                         = extensions[n].extra_compile_args
                           \o FlagsOfGood(N, "compile_flags")
                    /\ extensions'[n].extra_link_args
                         = extensions[n].extra_link_args
                           \o FlagsOfGood(N, "link_flags")
              /\ config_pxi' = IF DefLines(N) = <<>> THEN <<>>
                               ELSE <<"# Automatically generated; do not edit">>
                                    \o DefLines(N)
              /\ parent_built' = [called |-> TRUE, extensions |-> extensions']

====
